---------------------------- MODULE Spec2Model ----------------------------
(***************************************************************************)
(* A model of the fishy flow-regime pipeline: compute_iha (33 indicators   *)
(* per complete calendar year), compute_dhram (10 scored indicators, five  *)
(* classes) and compute_iari (inter-quartile band deviation score).        *)
(*                                                                         *)
(* Numbers.  A float is modelled as an exact rational [n, d] in lowest     *)
(* terms with d > 0; not-a-number is the record with d = 0.  Comparisons   *)
(* with not-a-number are false and arithmetic on it yields it, as in       *)
(* IEEE-754.  Rounding error and infinities are not modelled.  Flow is     *)
(* counted in units of ZERO_FLOW_THRESHOLD (0.001), so a flow is an        *)
(* integer.  Matrix columns are numbered from 0 as in the code; a row is a *)
(* sequence, so column j is row[j + 1].                                    *)
(***************************************************************************)
EXTENDS Integers, Sequences, FiniteSets

VARIABLES op, args, ret, natural, impacted

vars == <<op, args, ret, natural, impacted>>

(***************************************************************************)
(* Float arithmetic                                                        *)
(***************************************************************************)
\* Binds the value v to the parameter of Body, as a local assignment does.
With(v, Body(_)) == CHOOSE r \in {Body(w) : w \in {v}} : TRUE

Abs(a) == IF a < 0 THEN -a ELSE a

RECURSIVE Gcd(_, _)
Gcd(a, b) == IF b = 0 THEN a ELSE Gcd(b, a % b)

NaN == [n |-> 0, d |-> 0]

IsNaN(x) == x.d = 0

\* The number n / d (d # 0) in lowest terms with a positive denominator.
Rat(n, d) ==
    IF d = 1 THEN [n |-> n, d |-> 1]
    ELSE With(Gcd(Abs(n), Abs(d)),
              LAMBDA g : IF d < 0 THEN [n |-> -(n \div g), d |-> -(d \div g)]
                         ELSE [n |-> n \div g, d |-> d \div g])

Num(i) == [n |-> i, d |-> 1]

\* x + y over the least common denominator.
RAdd(x, y) ==
    IF IsNaN(x) \/ IsNaN(y) THEN NaN
    ELSE With(IF x.d = y.d THEN x.d ELSE Gcd(x.d, y.d),
              LAMBDA g : Rat(x.n * (y.d \div g) + y.n * (x.d \div g), (x.d \div g) * y.d))

RNeg(x) == [n |-> -x.n, d |-> x.d]

RSub(x, y) == RAdd(x, RNeg(y))

\* x * y, cancelling across before multiplying.
RMul(x, y) ==
    IF IsNaN(x) \/ IsNaN(y) THEN NaN
    ELSE IF x.d = 1 /\ y.d = 1 THEN [n |-> x.n * y.n, d |-> 1]
    ELSE With(<< Gcd(Abs(x.n), y.d), Gcd(Abs(y.n), x.d) >>,
              LAMBDA g : [n |-> (x.n \div g[1]) * (y.n \div g[2]),
                          d |-> (x.d \div g[2]) * (y.d \div g[1])])

\* 1 / y for a number y # 0.
RInv(y) == IF y.n < 0 THEN [n |-> -y.d, d |-> -y.n] ELSE [n |-> y.d, d |-> y.n]

\* x / y; the code divides only where y is known to be non-zero.
RDiv(x, y) == IF IsNaN(x) \/ IsNaN(y) \/ y.n = 0 THEN NaN ELSE RMul(x, RInv(y))

RAbs(x) == [n |-> Abs(x.n), d |-> x.d]

\* The sign of x - y for numbers x and y: cross-multiplied over the common denominator.
Cmp(x, y) ==
    IF x.d = y.d THEN x.n - y.n
    ELSE With(Gcd(x.d, y.d), LAMBDA g : x.n * (y.d \div g) - y.n * (x.d \div g))

RLt(x, y) == ~IsNaN(x) /\ ~IsNaN(y) /\ Cmp(x, y) < 0

RLe(x, y) == ~IsNaN(x) /\ ~IsNaN(y) /\ Cmp(x, y) <= 0

RGt(x, y) == RLt(y, x)

RGe(x, y) == RLe(y, x)

\* np.maximum: not-a-number if either operand is.
RMaximum(x, y) == IF IsNaN(x) \/ IsNaN(y) THEN NaN ELSE IF Cmp(x, y) < 0 THEN y ELSE x

RECURSIVE RSum(_)
RSum(s) ==
    IF Len(s) = 0 THEN Num(0)
    ELSE IF Len(s) = 1 THEN s[1]
    ELSE With(RSum(SubSeq(s, 1, Len(s) \div 2)), LAMBDA left :
         RAdd(left, RSum(SubSeq(s, Len(s) \div 2 + 1, Len(s)))))

\* np.mean: the mean of an empty array is not-a-number.
Mean(s) == IF Len(s) = 0 THEN NaN ELSE RDiv(RSum(s), Num(Len(s)))

RECURSIVE IsqrtIter(_, _)
IsqrtIter(n, x) ==
    LET y == (x + n \div x) \div 2
    IN  IF y >= x THEN x ELSE IsqrtIter(n, y)

\* The integer part of the square root of n >= 0.
Isqrt(n) == IF n = 0 THEN 0 ELSE IsqrtIter(n, n)

(***************************************************************************)
(* fishy.iha.types                                                         *)
(***************************************************************************)
N_PARAMS == 33

\* Col.GROUPS: the half-open column range of each of the five groups.
GROUPS ==
    << [start |-> 0, stop |-> 12], [start |-> 12, stop |-> 24], [start |-> 24, stop |-> 26],
       [start |-> 26, stop |-> 30], [start |-> 30, stop |-> 33] >>

MIN_1DAY == 12

MAX_1DAY == 17

ZERO_FLOW_DAYS == 22

BASE_FLOW_INDEX == 23

DATE_OF_MIN == 24

\* PulseThresholds.__post_init__: TRUE when the constructor does not raise.
PulseThresholds_post_init(low, high) == ~RLt(low, Num(0)) /\ ~RLt(high, Num(0)) /\ ~RGe(low, high)

PulseThresholds(low, high) == [low |-> low, high |-> high]

\* An IHAResult; n_cols is values.shape[1], which a matrix without rows keeps.
IHAResult(values, n_cols, years, zft, pt) ==
    [values |-> values, n_cols |-> n_cols, years |-> years,
     zero_flow_threshold |-> zft, pulse_thresholds |-> pt]

None == [none |-> TRUE]

\* Column j (numbered from 0) of a matrix given as a sequence of rows.
Column(values, j) == [i \in 1..Len(values) |-> values[i][j + 1]]

(***************************************************************************)
(* fishy.dhram.types                                                       *)
(***************************************************************************)
N_INDICATORS == 10

MAX_POINTS == 30

INDICATOR_NAMES == << "1a", "1b", "2a", "2b", "3a", "3b", "4a", "4b", "5a", "5b" >>

WFD_LABELS == << "High", "Good", "Moderate", "Poor", "Bad" >>

CLASS_BOUNDARIES == << 0, 1, 5, 11, 21 >>

ScoringThresholds(lower, intermediate, upper) ==
    [lower |-> lower, intermediate |-> intermediate, upper |-> upper]

\* ScoringThresholds.__post_init__: TRUE when the constructor does not raise.
ScoringThresholds_post_init(t) ==
    RLe(Num(0), t.lower) /\ RLe(t.lower, t.intermediate) /\ RLe(t.intermediate, t.upper)

\* score with each boundary value given to the lower score (> in place of >=).
score_exclusive(t, value) ==
    IF RGt(value, t.upper) THEN 3
    ELSE IF RGt(value, t.intermediate) THEN 2
    ELSE IF RGt(value, t.lower) THEN 1
    ELSE 0

\* ScoringThresholds.score
score(t, value) ==
    IF RGe(value, t.upper) THEN 3
    ELSE IF RGe(value, t.intermediate) THEN 2
    ELSE IF RGe(value, t.lower) THEN 1
    ELSE 0

\* A decimal literal with one digit after the point, given in tenths.
Dec(tenths) == Rat(tenths, 10)

EMPIRICAL_THRESHOLDS ==
    << ScoringThresholds(Dec(199), Dec(437), Dec(675)),
       ScoringThresholds(Dec(294), Dec(976), Dec(1657)),
       ScoringThresholds(Dec(429), Dec(882), Dec(1334)),
       ScoringThresholds(Dec(845), Dec(1227), Dec(1608)),
       ScoringThresholds(Dec(70), Dec(212), Dec(355)),
       ScoringThresholds(Dec(334), Dec(503), Dec(673)),
       ScoringThresholds(Dec(364), Dec(651), Dec(938)),
       ScoringThresholds(Dec(305), Dec(761), Dec(1216)),
       ScoringThresholds(Dec(460), Dec(827), Dec(1194)),
       ScoringThresholds(Dec(491), Dec(799), Dec(1106)) >>

SIMPLIFIED_THRESHOLDS ==
    [k \in 1..N_INDICATORS |-> ScoringThresholds(Num(10), Num(30), Num(50))]

IndicatorDetail(name, group, statistic, value, points, thresholds) ==
    [name |-> name, group |-> group, statistic |-> statistic, value |-> value,
     points |-> points, thresholds |-> thresholds]

\* DHRAMResult.__post_init__: TRUE when the constructor does not raise.
DHRAMResult_post_init(r) ==
    /\ Len(r.indicators) = N_INDICATORS
    /\ 0 <= r.total_points /\ r.total_points <= MAX_POINTS
    /\ 1 <= r.preliminary_class /\ r.preliminary_class <= 5
    /\ 1 <= r.final_class /\ r.final_class <= 5

(***************************************************************************)
(* fishy.dhram._indicators                                                 *)
(*                                                                         *)
(* The trigonometry of circular_mean_doy and the square root of np.std are *)
(* computed in fixed point: an angle is a whole number of 1/TurnScale      *)
(* turns, a sine or cosine a whole number of 1/TrigScale, and a standard   *)
(* deviation is rounded down to a multiple of 1/SqrtScale.                 *)
(***************************************************************************)
DAYS_PER_YEAR == Rat(1461, 4)

\* abs(x) < _NEAR_ZERO (1e-10): every non-zero rational the model holds has a
\* magnitude of at least 1/2^31, so only zero is near zero; not-a-number is not.
NearZero(x) == ~IsNaN(x) /\ x.n = 0

TurnScale == 10000

TrigScale == 1000

SqrtScale == 100

\* _TWO_PI * doy / _DAYS_PER_YEAR as a number of 1/TurnScale turns in [0, TurnScale).
Theta(doy) == ((4 * doy.n * TurnScale) \div (1461 * doy.d)) % TurnScale

\* math.sin of an angle in 1/TurnScale turns, in 1/TrigScale (Bhaskara's rational
\* approximation sin x = 16 x (pi - x) / (5 pi^2 - 4 x (pi - x)) on each half turn).
Sin(t) ==
    LET half == TurnScale \div 2
        u == IF t < half THEN t ELSE t - half
        w == (u * (TurnScale - 2 * u)) \div ((TurnScale * TurnScale) \div (4 * TrigScale))
        v == (32 * TrigScale * w) \div (20 * TrigScale - 8 * w)
    IN  IF t < half THEN v ELSE -v

Cos(t) == Sin((t + TurnScale \div 4) % TurnScale)

\* atan of a ratio z in [0, 1] given in 1/TrigScale, in 1/TurnScale turns
\* (atan z = z (pi/4 + 0.273 (1 - z))).
Atan(z) == (z * (1250 + (434 * (TrigScale - z)) \div TrigScale)) \div TrigScale

\* The ratio p / q of two numbers as a whole number of 1/TrigScale.
Ratio(p, q) == With(RDiv(p, q), LAMBDA r : (r.n * TrigScale) \div r.d)

\* math.atan2(y, x) in 1/TurnScale turns, in (-TurnScale/2, TurnScale/2]; atan2(0, 0) = 0.
Atan2(y, x) ==
    With(IF x.n = 0 /\ y.n = 0 THEN 0
         ELSE IF RGe(RAbs(x), RAbs(y)) THEN Atan(Ratio(RAbs(y), RAbs(x)))
         ELSE TurnScale \div 4 - Atan(Ratio(RAbs(x), RAbs(y))), LAMBDA a :
    With(IF x.n < 0 THEN TurnScale \div 2 - a ELSE a, LAMBDA b :
    IF y.n < 0 THEN -b ELSE b))

HasNaN(s) == \E i \in 1..Len(s) : IsNaN(s[i])

circular_mean_doy(doy_values) ==
    IF Len(doy_values) = 0 \/ HasNaN(doy_values) THEN NaN
    ELSE
    With([i \in 1..Len(doy_values) |-> Theta(doy_values[i])], LAMBDA theta :
    With(Mean([i \in 1..Len(theta) |-> Rat(Cos(theta[i]), TrigScale)]), LAMBDA x_mean :
    With(Mean([i \in 1..Len(theta) |-> Rat(Sin(theta[i]), TrigScale)]), LAMBDA y_mean :
    With(Atan2(y_mean, x_mean), LAMBDA mean_angle :
    With(Rat(mean_angle * 1461, 4 * TurnScale), LAMBDA mean_doy :
    IF RLt(mean_doy, Num(0)) THEN RAdd(mean_doy, DAYS_PER_YEAR) ELSE mean_doy)))))

circular_distance_days(doy_a, doy_b) ==
    With(RAbs(RSub(doy_a, doy_b)), LAMBDA diff :
    IF RGt(diff, RDiv(DAYS_PER_YEAR, Num(2))) THEN RSub(DAYS_PER_YEAR, diff) ELSE diff)

\* safe_percent_change without the case of both values near zero.
safe_percent_change_no_both_zero(nat, imp) ==
    IF NearZero(nat) THEN Num(100)
    ELSE RMul(RDiv(RAbs(RSub(imp, nat)), RAbs(nat)), Num(100))

safe_percent_change(nat, imp) ==
    IF NearZero(nat)
    THEN IF NearZero(imp) THEN Num(0) ELSE Num(100)
    ELSE RMul(RDiv(RAbs(RSub(imp, nat)), RAbs(nat)), Num(100))

\* (x - m)^2
SqDev(x, m) == With(RSub(x, m), LAMBDA e : RMul(e, e))

\* np.std(values, ddof=0), rounded down to a multiple of 1/SqrtScale.
Std(values) ==
    With(Mean(values), LAMBDA m :
    With(Mean([i \in 1..Len(values) |-> SqDev(values[i], m)]), LAMBDA var :
    IF IsNaN(var) THEN NaN
    ELSE Rat(Isqrt((var.n * SqrtScale * SqrtScale) \div var.d), SqrtScale)))

compute_cv(values) ==
    With(Mean(values), LAMBDA mean :
    IF NearZero(mean) THEN Num(0)
    ELSE RMul(RDiv(Std(values), RAbs(mean)), Num(100)))

\* extract_dhram_group_params handing over all twelve columns of group 2.
extract_dhram_group_params_all_columns(iha_values, group) ==
    LET s == GROUPS[group]
    IN  [rows |-> [i \in 1..Len(iha_values) |-> SubSeq(iha_values[i], s.start + 1, s.stop)],
         n_params |-> s.stop - s.start]

\* The columns of one group, as a matrix with its own column count.
extract_dhram_group_params(iha_values, group) ==
    LET s == GROUPS[group]
        stop == IF group = 2 THEN s.start + 10 ELSE s.stop
    IN  [rows |-> [i \in 1..Len(iha_values) |-> SubSeq(iha_values[i], s.start + 1, stop)],
         n_params |-> stop - s.start]

GroupDigit == << "1", "2", "3", "4", "5" >>

\* circular_mean_doy of column j (from 0) of a matrix.
column_circular_mean(rows, j) == circular_mean_doy(Column(rows, j))

\* mean_changes[j] of _compute_group_indicators, for column j (from 1) of the group.
mean_change(natural_params, impacted_params, group, j) ==
    IF group = 3
    THEN RMul(RDiv(circular_distance_days(column_circular_mean(natural_params.rows, j - 1),
                                          column_circular_mean(impacted_params.rows, j - 1)),
                   DAYS_PER_YEAR), Num(100))
    ELSE safe_percent_change(Mean(Column(natural_params.rows, j - 1)),
                             Mean(Column(impacted_params.rows, j - 1)))

\* cv_changes[j] of _compute_group_indicators.
cv_change(natural_params, impacted_params, j) ==
    safe_percent_change(compute_cv(Column(natural_params.rows, j - 1)),
                        compute_cv(Column(impacted_params.rows, j - 1)))

\* _compute_group_indicators: the pair (Xa, Xb) of one group.
compute_group_indicators(natural_params, impacted_params, group, thresholds_a, thresholds_b) ==
    With(natural_params.n_params, LAMBDA n_params :
    With([j \in 1..n_params |-> mean_change(natural_params, impacted_params, group, j)],
         LAMBDA mean_changes :
    With([j \in 1..n_params |-> cv_change(natural_params, impacted_params, j)],
         LAMBDA cv_changes :
    With(Mean(mean_changes), LAMBDA avg_mean_change :
    With(Mean(cv_changes), LAMBDA avg_cv_change :
    << IndicatorDetail(GroupDigit[group] \o "a", group, "mean", avg_mean_change,
                       score(thresholds_a, avg_mean_change), thresholds_a),
       IndicatorDetail(GroupDigit[group] \o "b", group, "cv", avg_cv_change,
                       score(thresholds_b, avg_cv_change), thresholds_b) >>)))))

RECURSIVE summary_indicators_from(_, _, _, _)
summary_indicators_from(natural_values, impacted_values, thresholds, g) ==
    IF g > 5 THEN << >>
    ELSE LET idx == (g - 1) * 2
         IN  compute_group_indicators(extract_dhram_group_params(natural_values, g),
                                      extract_dhram_group_params(impacted_values, g),
                                      g, thresholds[idx + 1], thresholds[idx + 2])
             \o summary_indicators_from(natural_values, impacted_values, thresholds, g + 1)

compute_summary_indicators(natural_values, impacted_values, thresholds) ==
    summary_indicators_from(natural_values, impacted_values, thresholds, 1)

\* classify with a class starting just above its boundary (> in place of >=).
RECURSIVE classify_from_strict(_, _)
classify_from_strict(total_points, i) ==
    IF i < 0 THEN 1
    ELSE IF total_points > CLASS_BOUNDARIES[i + 1] THEN i + 1
    ELSE classify_from_strict(total_points, i - 1)

RECURSIVE classify_from(_, _)
classify_from(total_points, i) ==
    IF i < 0 THEN 1
    ELSE IF total_points >= CLASS_BOUNDARIES[i + 1] THEN i + 1
    ELSE classify_from(total_points, i - 1)

classify(total_points) == classify_from(total_points, Len(CLASS_BOUNDARIES) - 1)

int(b) == IF b THEN 1 ELSE 0

Min(a, b) == IF a < b THEN a ELSE b

\* apply_supplementary counting flow cessation only.
apply_supplementary_one_flag(preliminary_class, flow_cessation, subdaily_oscillation) ==
    Min(preliminary_class + int(flow_cessation), 5)

apply_supplementary(preliminary_class, flow_cessation, subdaily_oscillation) ==
    LET adjustment == int(flow_cessation) + int(subdaily_oscillation)
    IN  Min(preliminary_class + adjustment, 5)

wfd_label(dhram_class) == WFD_LABELS[dhram_class]

(***************************************************************************)
(* fishy.dhram.compute                                                     *)
(***************************************************************************)
Ok(v) == [ok |-> TRUE, val |-> v]

Raise(e) == [ok |-> FALSE, err |-> e]

\* The total taken from the first indicator alone.
sum_points_first_only(indicators) ==
    IF Len(indicators) = 0 THEN 0 ELSE Head(indicators).points

RECURSIVE sum_points(_)
sum_points(indicators) ==
    IF Len(indicators) = 0 THEN 0 ELSE Head(indicators).points + sum_points(Tail(indicators))

IncompatibleIHAResultsError(nat, imp) ==
    [type |-> "IncompatibleIHAResultsError", natural_n_params |-> nat.n_cols,
     impacted_n_params |-> imp.n_cols]

InsufficientYearsError(series_label, n_years, min_years) ==
    [type |-> "InsufficientYearsError", series_label |-> series_label,
     n_years |-> n_years, min_years |-> min_years]

\* The DHRAMResult that compute_dhram constructs once its inputs are validated.
dhram_result(nat, imp, threshold_variant, flow_cessation, subdaily_oscillation) ==
    With(IF threshold_variant = "empirical" THEN EMPIRICAL_THRESHOLDS
         ELSE SIMPLIFIED_THRESHOLDS, LAMBDA thresholds :
    With(compute_summary_indicators(nat.values, imp.values, thresholds), LAMBDA indicators :
    With(sum_points(indicators), LAMBDA total_points :
    With(classify(total_points), LAMBDA preliminary_class :
    With(apply_supplementary(preliminary_class, flow_cessation, subdaily_oscillation),
         LAMBDA final_class :
    [indicators |-> indicators, total_points |-> total_points,
     preliminary_class |-> preliminary_class,
     flow_cessation |-> flow_cessation,
     subdaily_oscillation |-> subdaily_oscillation,
     final_class |-> final_class, wfd_status |-> wfd_label(final_class),
     threshold_variant |-> threshold_variant,
     natural_years |-> Len(nat.years), impacted_years |-> Len(imp.years)])))))

\* compute_dhram checking the year counts before the shapes.
compute_dhram_years_first(nat, imp, threshold_variant, flow_cessation, subdaily_oscillation, min_years) ==
    IF Len(nat.years) < min_years
    THEN Raise(InsufficientYearsError("natural", Len(nat.years), min_years))
    ELSE IF Len(imp.years) < min_years
         THEN Raise(InsufficientYearsError("impacted", Len(imp.years), min_years))
    ELSE IF nat.n_cols # N_PARAMS THEN Raise(IncompatibleIHAResultsError(nat, imp))
    ELSE IF imp.n_cols # N_PARAMS THEN Raise(IncompatibleIHAResultsError(nat, imp))
    ELSE With(dhram_result(nat, imp, threshold_variant, flow_cessation, subdaily_oscillation),
              LAMBDA result :
              IF ~DHRAMResult_post_init(result) THEN Raise([type |-> "ValueError"])
              ELSE Ok(result))

compute_dhram(nat, imp, threshold_variant, flow_cessation, subdaily_oscillation, min_years) ==
    IF nat.n_cols # N_PARAMS THEN Raise(IncompatibleIHAResultsError(nat, imp))
    ELSE IF imp.n_cols # N_PARAMS THEN Raise(IncompatibleIHAResultsError(nat, imp))
    ELSE IF Len(nat.years) < min_years
         THEN Raise(InsufficientYearsError("natural", Len(nat.years), min_years))
    ELSE IF Len(imp.years) < min_years
         THEN Raise(InsufficientYearsError("impacted", Len(imp.years), min_years))
    ELSE With(dhram_result(nat, imp, threshold_variant, flow_cessation, subdaily_oscillation),
              LAMBDA result :
              IF ~DHRAMResult_post_init(result) THEN Raise([type |-> "ValueError"])
              ELSE Ok(result))

(***************************************************************************)
(* fishy.iari.types, fishy.iari._deviation, fishy.iari.compute             *)
(***************************************************************************)
EXCELLENT_THRESHOLD == Rat(5, 100)

GOOD_THRESHOLD == Rat(15, 100)

CLASSIFICATION_LABELS == {"Excellent", "Good", "Poor"}

\* The k-th smallest entry (k from 1) of an array of numbers that holds no
\* not-a-number: the entry with fewer than k entries below it and at least k
\* entries not above it.
Kth(a, k) ==
    CHOOSE v \in {a[i] : i \in 1..Len(a)} :
        /\ Cardinality({i \in 1..Len(a) : RLt(a[i], v)}) < k
        /\ Cardinality({i \in 1..Len(a) : RLe(a[i], v)}) >= k

\* np.percentile(a, q) of one column (linear interpolation between the two nearest
\* ranks); not-a-number for a column that is empty or holds not-a-number.
Percentile(a, q) ==
    IF Len(a) = 0 \/ HasNaN(a) THEN NaN
    ELSE With(((Len(a) - 1) * q) \div 100, LAMBDA lo :
         IF lo + 1 >= Len(a) THEN Kth(a, lo + 1)
         ELSE With(<< Kth(a, lo + 1), Kth(a, lo + 2) >>, LAMBDA s :
              RAdd(s[1], RMul(RSub(Rat((Len(a) - 1) * q, 100), Num(lo)),
                              RSub(s[2], s[1])))))

NaturalBands(q25, q75, pulse_thresholds) ==
    [q25 |-> q25, q75 |-> q75, pulse_thresholds |-> pulse_thresholds]

\* NaturalBands.__post_init__: TRUE when the constructor does not raise.
NaturalBands_post_init(b) ==
    /\ Len(b.q25) = N_PARAMS
    /\ Len(b.q75) = N_PARAMS
    /\ \A j \in 1..N_PARAMS : RLe(b.q25[j], b.q75[j])

\* NaturalBands.width
width(b) == [j \in 1..Len(b.q25) |-> RSub(b.q75[j], b.q25[j])]

\* NaturalBands.degenerate_mask
degenerate_mask(b) == [j \in 1..Len(b.q25) |-> width(b)[j] = Num(0)]

bands_from_iha(nat) ==
    IF nat.pulse_thresholds = None THEN Raise([type |-> "ValueError"])
    ELSE With(NaturalBands([j \in 1..nat.n_cols |-> Percentile(Column(nat.values, j - 1), 25)],
                           [j \in 1..nat.n_cols |-> Percentile(Column(nat.values, j - 1), 75)],
                           nat.pulse_thresholds),
              LAMBDA b : IF NaturalBands_post_init(b) THEN Ok(b)
                         ELSE Raise([type |-> "ValueError"]))

\* deviation dividing by the band width whatever it is.
deviation_unguarded(v, q25, q75) ==
    RDiv(RMaximum(RMaximum(RSub(q25, v), RSub(v, q75)), Num(0)), RSub(q75, q25))

\* One entry of the matrix compute_deviations returns: impacted value v against
\* the band [q25, q75] of its column.
deviation(v, q25, q75) ==
    LET below == RSub(q25, v)
        above == RSub(v, q75)
        raw == RMaximum(RMaximum(below, above), Num(0))
        iqr == RSub(q75, q25)
        has_iqr == RGt(iqr, Num(0))
        safe_iqr == IF has_iqr THEN iqr ELSE Num(1)
        normalized == RDiv(raw, safe_iqr)
    IN  IF has_iqr THEN normalized
        ELSE IF RGt(raw, Num(0)) THEN Num(1) ELSE Num(0)

compute_deviations(impacted_values, bands) ==
    [i \in 1..Len(impacted_values) |->
        [j \in 1..Len(bands.q25) |-> deviation(impacted_values[i][j], bands.q25[j], bands.q75[j])]]

\* classify_iari with exclusive thresholds (< in place of <=).
classify_iari_exclusive(value) ==
    IF RLt(value, EXCELLENT_THRESHOLD) THEN "Excellent"
    ELSE IF RLt(value, GOOD_THRESHOLD) THEN "Good"
    ELSE "Poor"

classify_iari(value) ==
    IF RLe(value, EXCELLENT_THRESHOLD) THEN "Excellent"
    ELSE IF RLe(value, GOOD_THRESHOLD) THEN "Good"
    ELSE "Poor"

\* IARIResult.__post_init__: TRUE when the constructor does not raise.
IARIResult_post_init(r) ==
    /\ \A i \in 1..Len(r.deviations) : Len(r.deviations[i]) = N_PARAMS
    /\ Len(r.years) = Len(r.deviations)
    /\ Len(r.per_year) = Len(r.deviations)
    /\ r.classification \in CLASSIFICATION_LABELS
    /\ ~RLt(r.overall, Num(0))

\* The IARIResult that compute_iari constructs from the natural bands.
iari_result(imp, bands, natural_years, impacted_years) ==
    With(compute_deviations(imp.values, bands), LAMBDA deviations :
    With([i \in 1..Len(deviations) |-> Mean(deviations[i])], LAMBDA per_year :
    With(Mean(per_year), LAMBDA overall :
    [deviations |-> deviations, years |-> imp.years, per_year |-> per_year,
     overall |-> overall, classification |-> classify_iari(overall),
     bands |-> bands,
     degenerate_params |-> {j - 1 : j \in {k \in 1..N_PARAMS : degenerate_mask(bands)[k]}},
     natural_years |-> natural_years, impacted_years |-> impacted_years])))

compute_iari(nat, imp, min_years) ==
    IF nat.n_cols # N_PARAMS THEN Raise(IncompatibleIHAResultsError(nat, imp))
    ELSE IF imp.n_cols # N_PARAMS THEN Raise(IncompatibleIHAResultsError(nat, imp))
    ELSE IF Len(nat.years) < min_years
         THEN Raise(InsufficientYearsError("natural", Len(nat.years), min_years))
    ELSE IF Len(imp.years) < min_years
         THEN Raise(InsufficientYearsError("impacted", Len(imp.years), min_years))
    ELSE With(bands_from_iha(nat), LAMBDA bands :
              IF ~bands.ok THEN bands
              ELSE With(iari_result(imp, bands.val, Len(nat.years), Len(imp.years)),
                        LAMBDA result :
                        IF ~IARIResult_post_init(result) THEN Raise([type |-> "ValueError"])
                        ELSE Ok(result)))

(***************************************************************************)
(* fishy.iha._util                                                         *)
(*                                                                         *)
(* A date (datetime64[D]) is its number of days since 1970-01-01, as numpy  *)
(* holds it; an array is a sequence, and an index i of the code (from 0)   *)
(* is position i + 1 of the sequence.                                      *)
(***************************************************************************)
\* A sequence given as a function over 1..n, evaluated once into a tuple.
Array(f) == f \o << >>

\* The Gregorian leap-year rule.
IsLeap(year) == year % 4 = 0 /\ (year % 100 # 0 \/ year % 400 = 0)

\* The number of leap years among the years 1..year.
LeapsThrough(year) == (year \div 4) - (year \div 100) + (year \div 400)

\* np.datetime64(f"{year}-01-01") as a day number.
YearStart(year) == 365 * (year - 1970) + LeapsThrough(year - 1) - LeapsThrough(1969)

\* dates.astype("datetime64[Y]") + 1970: the calendar year that holds day d.
YearOf(d) ==
    CHOOSE year \in (1969 + d \div 366)..(1971 + d \div 366) :
        YearStart(year) <= d /\ d < YearStart(year + 1)

\* The day of the year on which each month ends.
MonthEnds(year) ==
    IF IsLeap(year) THEN << 31, 60, 91, 121, 152, 182, 213, 244, 274, 305, 335, 366 >>
    ELSE << 31, 59, 90, 120, 151, 181, 212, 243, 273, 304, 334, 365 >>

\* The month that holds day `doy` (from 1) of `year`.
MonthOf(year, doy) == CHOOSE m \in 1..12 : doy <= MonthEnds(year)[m] /\ (m = 1 \/ doy > MonthEnds(year)[m - 1])

\* dates_to_components: the arrays (years, months, day_of_year).
dates_to_components(dates) ==
    With(Array([i \in 1..Len(dates) |-> YearOf(dates[i])]), LAMBDA years :
    With(Array([i \in 1..Len(dates) |-> dates[i] - YearStart(years[i]) + 1]), LAMBDA day_of_year :
    << years,
       Array([i \in 1..Len(dates) |-> MonthOf(years[i], day_of_year[i])]),
       day_of_year >>))

\* np.searchsorted(a, v): the bisection between positions lo and hi (from 0).
RECURSIVE Bisect(_, _, _, _)
Bisect(a, v, lo, hi) ==
    IF lo >= hi THEN lo
    ELSE IF a[(lo + hi) \div 2 + 1] < v THEN Bisect(a, v, (lo + hi) \div 2 + 1, hi)
    ELSE Bisect(a, v, lo, (lo + hi) \div 2)

searchsorted(a, v) == Bisect(a, v, 0, Len(a))

\* np.unique of an array of integers: its distinct values in ascending order.
RECURSIVE Ascending(_)
Ascending(S) ==
    IF S = {} THEN << >>
    ELSE With(CHOOSE x \in S : \A y \in S : x <= y, LAMBDA least :
         << least >> \o Ascending(S \ {least}))

unique(a) == Ascending({a[i] : i \in 1..Len(a)})

\* year_slice expecting 365 days of every year, leap or not.
year_slice_no_leap(dates, year) ==
    With(searchsorted(dates, YearStart(year)), LAMBDA start :
    With(searchsorted(dates, YearStart(year + 1)), LAMBDA end :
    IF end - start = 365
    THEN << [year |-> year, start |-> start, end |-> end] >>
    ELSE << >>))

\* The triple (year, start, end) of extract_year_slices for one year, or no triple.
year_slice(dates, year) ==
    With(searchsorted(dates, YearStart(year)), LAMBDA start :
    With(searchsorted(dates, YearStart(year + 1)), LAMBDA end :
    IF end - start = (IF IsLeap(year) THEN 366 ELSE 365)
    THEN << [year |-> year, start |-> start, end |-> end] >>
    ELSE << >>))

RECURSIVE year_slices_of(_, _)
year_slices_of(dates, unique_years) ==
    IF Len(unique_years) = 0 THEN << >>
    ELSE year_slice(dates, Head(unique_years)) \o year_slices_of(dates, Tail(unique_years))

extract_year_slices(dates) ==
    year_slices_of(dates, unique(dates_to_components(dates)[1]))

\* rolling_mean(x, window) times window: the sums of `window` consecutive entries,
\* taken from the running totals cum of x (cum[k] is the sum of the first k - 1 entries).
rolling_mean(cum, window) == {cum[i + window] - cum[i] : i \in 1..(Len(cum) - window)}

\* run_lengths without the FALSE entries around the array: the changes are looked
\* for inside the array alone.
run_lengths_unpadded(mask) ==
    With(SelectSeq([e \in 1..(Len(mask) - 1) |-> e], LAMBDA e : mask[e] # mask[e + 1]),
         LAMBDA edges :
    [k \in 1..(Len(edges) \div 2) |-> edges[2 * k] - edges[2 * k - 1]])

\* run_lengths: the lengths of the runs of TRUE in a boolean array.  `edges` are the
\* positions (from 0) at which the array padded with FALSE at both ends changes.
run_lengths(mask) ==
    With([k \in 0..(Len(mask) + 1) |-> k \in 1..Len(mask) /\ mask[k]], LAMBDA padded :
    With(SelectSeq([e \in 1..(Len(mask) + 1) |-> e - 1], LAMBDA e : padded[e] # padded[e + 1]),
         LAMBDA edges :
    [k \in 1..(Len(edges) \div 2) |-> edges[2 * k] - edges[2 * k - 1]]))

(***************************************************************************)
(* fishy.iha._groups                                                       *)
(*                                                                         *)
(* A flow is a whole number of units; the unit is the default zero-flow     *)
(* threshold.  The entries of a result row are numbers.                    *)
(***************************************************************************)
\* The sum of the entries lo..hi of an array of integers, by halves.
RECURSIVE SumRange(_, _, _)
SumRange(x, lo, hi) ==
    IF lo > hi THEN 0
    ELSE IF lo = hi THEN x[lo]
    ELSE SumRange(x, lo, (lo + hi) \div 2) + SumRange(x, (lo + hi) \div 2 + 1, hi)

\* np.mean of an array of integers.
IntMean(x) == IF Len(x) = 0 THEN NaN ELSE Rat(SumRange(x, 1, Len(x)), Len(x))

\* The running totals base + x[lo], base + x[lo] + x[lo + 1], ... up to x[hi], by halves.
RECURSIVE running(_, _, _, _)
running(x, lo, hi, base) ==
    IF lo = hi THEN << base + x[lo] >>
    ELSE With(running(x, lo, (lo + hi) \div 2, base), LAMBDA left :
         left \o running(x, (lo + hi) \div 2 + 1, hi, left[Len(left)]))

\* The running totals of x: entry k is the sum of the first k - 1 entries of x.
cumsum(x) == IF Len(x) = 0 THEN << 0 >> ELSE << 0 >> \o running(x, 1, Len(x), 0)

Least(S) == CHOOSE x \in S : \A y \in S : x <= y

Greatest(S) == -Least({-x : x \in S})

\* The k-th smallest entry (k from 1) of an array of integers.
IntKth(x, k) ==
    CHOOSE v \in {x[i] : i \in 1..Len(x)} :
        /\ Cardinality({i \in 1..Len(x) : x[i] < v}) < k
        /\ Cardinality({i \in 1..Len(x) : x[i] <= v}) >= k

\* np.median of a non-empty array of integers.
median(x) ==
    IF Len(x) % 2 = 1 THEN Num(IntKth(x, (Len(x) + 1) \div 2))
    ELSE Rat(IntKth(x, Len(x) \div 2) + IntKth(x, Len(x) \div 2 + 1), 2)

\* q[mask] for the mask months == m.
month_flows(q, months, m) ==
    With(SelectSeq([i \in 1..Len(q) |-> i], LAMBDA i : months[i] = m), LAMBDA at :
    [k \in 1..Len(at) |-> q[at[k]]])

\* Group 1: the twelve monthly means; not-a-number for a month without a day.
compute_group1(q, months) == [m \in 1..12 |-> IntMean(month_flows(q, months, m))]

windows == << 1, 3, 7, 30, 90 >>

\* annual_mean > 1e-15: a mean of whole units is above 1e-15 exactly when it is above zero.
bfi(min_7day, annual_mean) ==
    IF RGt(annual_mean, Num(0)) THEN RDiv(min_7day, annual_mean) ELSE NaN

\* compute_group2 writing the maxima where the minima belong and the minima where the
\* maxima belong.
compute_group2_extremes_swapped(q, zero_flow_threshold) ==
    With(cumsum(q), LAMBDA cum :
    With([i \in 1..Len(windows) |-> rolling_mean(cum, windows[i])], LAMBDA rm :
    With(Array([i \in 1..Len(windows) |-> Rat(Least(rm[i]), windows[i])]), LAMBDA minima :
    [i \in 1..Len(windows) |-> Rat(Greatest(rm[i]), windows[i])]
    \o minima
    \o << Num(Cardinality({i \in 1..Len(q) : RLt(Num(q[i]), zero_flow_threshold)})),
          bfi(minima[3], IntMean(q)) >>)))

\* compute_group2 taking the extremes of the window sums, not of the window means.
compute_group2_window_sums(q, zero_flow_threshold) ==
    With(cumsum(q), LAMBDA cum :
    With([i \in 1..Len(windows) |-> rolling_mean(cum, windows[i])], LAMBDA rm :
    With(Array([i \in 1..Len(windows) |-> Num(Least(rm[i]))]), LAMBDA minima :
    minima
    \o [i \in 1..Len(windows) |-> Num(Greatest(rm[i]))]
    \o << Num(Cardinality({i \in 1..Len(q) : RLt(Num(q[i]), zero_flow_threshold)})),
          bfi(minima[3], IntMean(q)) >>)))

\* Group 2: minima and maxima of the rolling means, zero-flow days, base-flow index.
compute_group2(q, zero_flow_threshold) ==
    With(cumsum(q), LAMBDA cum :
    With([i \in 1..Len(windows) |-> rolling_mean(cum, windows[i])], LAMBDA rm :
    With(Array([i \in 1..Len(windows) |-> Rat(Least(rm[i]), windows[i])]), LAMBDA minima :
    minima
    \o [i \in 1..Len(windows) |-> Rat(Greatest(rm[i]), windows[i])]
    \o << Num(Cardinality({i \in 1..Len(q) : RLt(Num(q[i]), zero_flow_threshold)})),
          bfi(minima[3], IntMean(q)) >>)))

\* np.argmin / np.argmax: the first position (from 1) of the least / greatest entry.
argmin(q) ==
    With(Least({q[i] : i \in 1..Len(q)}), LAMBDA least :
    Least({i \in 1..Len(q) : q[i] = least}))

argmax(q) ==
    With(Greatest({q[i] : i \in 1..Len(q)}), LAMBDA greatest :
    Least({i \in 1..Len(q) : q[i] = greatest}))

\* Group 3: the day of the year of the annual minimum and maximum.
compute_group3(q, day_of_year) == << Num(day_of_year[argmin(q)]), Num(day_of_year[argmax(q)]) >>

\* The count of the runs and their mean length (0 without a run).
pulse_stats(runs) ==
    << Num(Len(runs)), IF Len(runs) > 0 THEN IntMean(runs) ELSE Num(0) >>

\* compute_group4 counting a day equal to a threshold as part of a pulse.
compute_group4_inclusive(q, low_thresh, high_thresh) ==
    pulse_stats(run_lengths([i \in 1..Len(q) |-> RLe(Num(q[i]), low_thresh)]))
    \o pulse_stats(run_lengths([i \in 1..Len(q) |-> RGe(Num(q[i]), high_thresh)]))

\* Group 4: count and mean duration of the low and the high pulses.
compute_group4(q, low_thresh, high_thresh) ==
    pulse_stats(run_lengths([i \in 1..Len(q) |-> RLt(Num(q[i]), low_thresh)]))
    \o pulse_stats(run_lengths([i \in 1..Len(q) |-> RGt(Num(q[i]), high_thresh)]))

\* Group 5: median rise, median fall, and the number of changes of np.signbit(diff).
compute_group5(q) ==
    With(Array([i \in 1..(Len(q) - 1) |-> q[i + 1] - q[i]]), LAMBDA diff :
    With(<< SelectSeq(diff, LAMBDA x : x > 0), SelectSeq(diff, LAMBDA x : x < 0) >>, LAMBDA parts :
    << IF Len(parts[1]) > 0 THEN median(parts[1]) ELSE Num(0),
       IF Len(parts[2]) > 0 THEN median(parts[2]) ELSE Num(0),
       Num(Cardinality({i \in 1..(Len(diff) - 1) : (diff[i] < 0) # (diff[i + 1] < 0)})) >>))

(***************************************************************************)
(* fishy.iha.errors and fishy.iha.compute                                  *)
(***************************************************************************)
InsufficientDataError(n_days, n_years, min_years) ==
    [type |-> "InsufficientDataError", n_days |-> n_days, n_years |-> n_years,
     min_years |-> min_years]

DateFlowLengthMismatchError(n_dates, n_flows) ==
    [type |-> "DateFlowLengthMismatchError", n_dates |-> n_dates, n_flows |-> n_flows]

NonDailyTimestepError(position, gap_days) ==
    [type |-> "NonDailyTimestepError", position |-> position, gap_days |-> gap_days]

NegativeFlowError(n_negative, min_value) ==
    [type |-> "NegativeFlowError", n_negative |-> n_negative, min_value |-> min_value]

\* pulse_thresholds_from_record: the quartiles of the full record, or the ValueError
\* of the PulseThresholds constructor.
pulse_thresholds_from_record(q) ==
    With(Array([i \in 1..Len(q) |-> Num(q[i])]), LAMBDA record :
    With(<< Percentile(record, 25), Percentile(record, 75) >>, LAMBDA quartiles :
    IF PulseThresholds_post_init(quartiles[1], quartiles[2])
    THEN Ok(PulseThresholds(quartiles[1], quartiles[2]))
    ELSE Raise([type |-> "ValueError"])))

\* The positions i (from 1) with dates[i + 1] - dates[i] # 1.
bad_gaps(dates) == {i \in 1..(Len(dates) - 1) : dates[i + 1] - dates[i] # 1}

\* Steps 1 to 3 of compute_iha with the continuity check made before the check for
\* negative flows.
input_error_continuity_first(q, dates) ==
    IF Len(q) # Len(dates) THEN Raise(DateFlowLengthMismatchError(Len(dates), Len(q)))
    ELSE IF Len(dates) > 1 /\ bad_gaps(dates) # {}
    THEN With(Least(bad_gaps(dates)), LAMBDA at :
         Raise(NonDailyTimestepError(at - 1, dates[at + 1] - dates[at])))
    ELSE IF \E i \in 1..Len(q) : q[i] < 0
    THEN Raise(NegativeFlowError(Cardinality({i \in 1..Len(q) : q[i] < 0}),
                                 Num(Least({q[i] : i \in 1..Len(q)}))))
    ELSE None

\* Steps 1 to 3 of compute_iha: the error of the first check that fails, or None.
input_error(q, dates) ==
    IF Len(q) # Len(dates) THEN Raise(DateFlowLengthMismatchError(Len(dates), Len(q)))
    ELSE IF \E i \in 1..Len(q) : q[i] < 0
    THEN Raise(NegativeFlowError(Cardinality({i \in 1..Len(q) : q[i] < 0}),
                                 Num(Least({q[i] : i \in 1..Len(q)}))))
    ELSE IF Len(dates) > 1 /\ bad_gaps(dates) # {}
    THEN With(Least(bad_gaps(dates)), LAMBDA at :
         Raise(NonDailyTimestepError(at - 1, dates[at + 1] - dates[at])))
    ELSE None

\* The body of the loop over the years: the row of one (year, start, end) triple.
year_row(q, months, day_of_year, slice, zero_flow_threshold, pulse_thresholds) ==
    With(SubSeq(q, slice.start + 1, slice.end), LAMBDA q_year :
    compute_group1(q_year, SubSeq(months, slice.start + 1, slice.end))
    \o compute_group2(q_year, zero_flow_threshold)
    \o compute_group3(q_year, SubSeq(day_of_year, slice.start + 1, slice.end))
    \o compute_group4(q_year, pulse_thresholds.low, pulse_thresholds.high)
    \o compute_group5(q_year))

\* Steps 6 to 9 of compute_iha, or the error of the pulse-threshold derivation.
iha_result(q, dates, year_slices, zero_flow_threshold, resolved) ==
    IF ~resolved.ok THEN resolved
    ELSE With(dates_to_components(dates), LAMBDA components :
         Ok(IHAResult([i \in 1..Len(year_slices) |->
                          year_row(q, components[2], components[3], year_slices[i],
                                   zero_flow_threshold, resolved.val)],
                      N_PARAMS,
                      [i \in 1..Len(year_slices) |-> year_slices[i].year],
                      zero_flow_threshold,
                      resolved.val)))

\* compute_iha asking for more than min_years complete years.
compute_iha_min_years_exceeded(q, dates, zero_flow_threshold, pulse_thresholds, min_years) ==
    With(input_error(q, dates), LAMBDA error :
    IF error # None THEN error
    ELSE With(extract_year_slices(dates), LAMBDA year_slices :
         IF Len(year_slices) <= min_years
         THEN Raise(InsufficientDataError(Len(q), Len(year_slices), min_years))
         ELSE iha_result(q, dates, year_slices, zero_flow_threshold,
                         IF pulse_thresholds = None THEN pulse_thresholds_from_record(q)
                         ELSE Ok(pulse_thresholds))))

compute_iha(q, dates, zero_flow_threshold, pulse_thresholds, min_years) ==
    With(input_error(q, dates), LAMBDA error :
    IF error # None THEN error
    ELSE With(extract_year_slices(dates), LAMBDA year_slices :
         IF Len(year_slices) < min_years
         THEN Raise(InsufficientDataError(Len(q), Len(year_slices), min_years))
         ELSE iha_result(q, dates, year_slices, zero_flow_threshold,
                         IF pulse_thresholds = None THEN pulse_thresholds_from_record(q)
                         ELSE Ok(pulse_thresholds))))

(***************************************************************************)
(* Inputs.  An IHAResult handed to compute_dhram or compute_iari directly  *)
(* (as the tests' make_iha_result does) has n rows; every column of row i  *)
(* holds base + (i - 1) * step, and kind "nan_bfi" puts not-a-number in    *)
(* the base-flow-index column of the first row, as compute_iha does for a  *)
(* year without flow; kind "late" moves the two timing columns LateDays    *)
(* days later.                                                             *)
(***************************************************************************)
MaxYears == 2

FirstYear == 2000

Bases == {0, 10}

Steps == {0, 20}

Kinds == {"flat", "nan_bfi", "late"}

LateDays == 40

Cell(i, j, base, step, kind) ==
    IF kind = "nan_bfi" /\ i = 1 /\ j = BASE_FLOW_INDEX THEN NaN
    ELSE IF kind = "late" /\ j \in GROUPS[3].start..(GROUPS[3].stop - 1)
         THEN Num(base + (i - 1) * step + LateDays)
    ELSE Num(base + (i - 1) * step)

make_iha_result(n, base, step, kind) ==
    IHAResult([i \in 1..n |-> [j \in 1..N_PARAMS |-> Cell(i, j - 1, base, step, kind)]],
              N_PARAMS,
              [i \in 1..n |-> FirstYear + i - 1],
              Num(1),
              PulseThresholds(Num(5), Num(50)))

SuppliedResults ==
    {make_iha_result(n, base, step, kind) :
        n \in 0..MaxYears, base \in Bases, step \in Steps, kind \in Kinds}

(***************************************************************************)
(* Actions: one call of one entry point.                                   *)
(***************************************************************************)
Init ==
    /\ op = "init"
    /\ args = None
    /\ ret = None
    /\ natural = None
    /\ impacted = None

\* The caller obtains the natural and the impacted IHAResult.
Supply ==
    /\ op = "init"
    /\ \E nat \in SuppliedResults, imp \in SuppliedResults :
          /\ natural' = nat
          /\ impacted' = imp
    /\ op' = "supply"
    /\ UNCHANGED <<args, ret>>

ComputeDhram ==
    /\ op = "supply"
    /\ \E variant \in {"empirical", "simplified"}, fc \in BOOLEAN, so \in BOOLEAN,
          min_years \in {0, 1, MaxYears} :
          /\ args' = [threshold_variant |-> variant, flow_cessation |-> fc,
                      subdaily_oscillation |-> so, min_years |-> min_years]
          /\ ret' = compute_dhram(natural, impacted, variant, fc, so, min_years)
    /\ op' = "compute_dhram"
    /\ UNCHANGED <<natural, impacted>>

Classify ==
    /\ op = "init"
    /\ \E p \in -1..(MAX_POINTS + 1) :
          /\ args' = [total_points |-> p]
          /\ ret' = Ok(classify(p))
    /\ op' = "classify"
    /\ UNCHANGED <<natural, impacted>>

ComputeIari ==
    /\ op = "supply"
    /\ \E min_years \in {0, 1, MaxYears} :
          /\ args' = [min_years |-> min_years]
          /\ ret' = compute_iari(natural, impacted, min_years)
    /\ op' = "compute_iari"
    /\ UNCHANGED <<natural, impacted>>

\* Threshold and indicator values tried on ScoringThresholds.
ThresholdValues == {Num(-1), Num(0), Num(10), Num(30), Num(50), NaN}

ScoreValues == {Num(-1), Num(0), Num(5), Num(10), Num(20), Num(30), Num(40), Num(50), Num(100), NaN}

\* ScoringThresholds(lower, intermediate, upper).score(value)
Score ==
    /\ op = "init"
    /\ \E l \in ThresholdValues, i \in ThresholdValues, u \in ThresholdValues, v \in ScoreValues :
          /\ args' = [thresholds |-> ScoringThresholds(l, i, u), value |-> v]
          /\ ret' = IF ScoringThresholds_post_init(ScoringThresholds(l, i, u))
                    THEN Ok(score(ScoringThresholds(l, i, u), v))
                    ELSE Raise([type |-> "ValueError"])
    /\ op' = "score"
    /\ UNCHANGED <<natural, impacted>>

\* Overall scores tried on classify_iari: hundredths around both thresholds,
\* the tests' 0.051 and 0.151, a large score and not-a-number.
IariScores ==
    {Rat(k, 100) : k \in 0..20} \cup {Rat(51, 1000), Rat(151, 1000), Rat(1, 2), Num(1), NaN}

ClassifyIari ==
    /\ op = "init"
    /\ \E s \in IariScores :
          /\ args' = [value |-> s]
          /\ ret' = Ok(classify_iari(s))
    /\ op' = "classify_iari"
    /\ UNCHANGED <<natural, impacted>>

\* Band edges and impacted values tried on compute_deviations; the bands have
\* [q25, q75] in the columns below `split` and the zero-width band [q25, q25]
\* in the others.
BandEdges == {20, 25, 40}

BandSplits == {0, DATE_OF_MIN, N_PARAMS}

DeviationValues == {Num(5), Num(20), Num(25), Num(30), Num(40), Num(50), NaN}

ComputeDeviations ==
    /\ op = "init"
    /\ \E q25 \in BandEdges, q75 \in BandEdges, split \in BandSplits,
          v1 \in DeviationValues, v2 \in DeviationValues :
          LET bands == NaturalBands([j \in 1..N_PARAMS |-> Num(q25)],
                                    [j \in 1..N_PARAMS |-> IF j - 1 < split THEN Num(q75) ELSE Num(q25)],
                                    PulseThresholds(Num(5), Num(50)))
              impacted_values == << [j \in 1..N_PARAMS |-> v1], [j \in 1..N_PARAMS |-> v2] >>
          IN  /\ args' = [impacted_values |-> impacted_values, bands |-> bands]
              /\ ret' = IF NaturalBands_post_init(bands)
                        THEN Ok(compute_deviations(impacted_values, bands))
                        ELSE Raise([type |-> "ValueError"])
    /\ op' = "compute_deviations"
    /\ UNCHANGED <<natural, impacted>>

Next ==
    \/ Supply
    \/ ComputeDhram
    \/ ComputeIari
    \/ Classify
    \/ Score
    \/ ClassifyIari
    \/ ComputeDeviations

Spec == Init /\ [][Next]_vars

(***************************************************************************)
(* Daily records for compute_iha and extract_year_slices.  A record starts *)
(* on one of Starts and runs for one of Spans days, so that it holds no     *)
(* complete year, one, or two, with or without partial years around them;  *)
(* 1900 is a century year that is not a leap year, 2000 is a leap year.    *)
(***************************************************************************)
Starts == {YearStart(1900), YearStart(FirstYear) - 1, YearStart(FirstYear), YearStart(FirstYear) + 1}

Spans == {0, 365, 366, 367, 732}

Patterns == {"saw", "alternating", "dry", "weekly"}

DateFaults == {"none", "gap", "repeat"}

\* The position (from 1) after which a date fault sits and at which a negative flow sits.
DefectAt == 200

\* The flow of day d: a weekly saw-tooth, the same raised in odd years, no flow, or
\* flow on one day of every week.
Flow(pattern, d) ==
    IF pattern = "dry" THEN 0
    ELSE IF pattern = "weekly" THEN (IF d % 7 = 5 THEN 7 ELSE 0)
    ELSE IF pattern = "alternating" THEN 1 + (d % 7) + 20 * (YearOf(d) % 2)
    ELSE 1 + (d % 7)

\* n daily dates from `first`; a gap skips one day after position DefectAt, a repeat
\* holds the day of position DefectAt twice.
DatesOf(first, n, fault) ==
    Array([i \in 1..n |->
        first + i - 1 + (IF i <= DefectAt \/ fault = "none" THEN 0
                         ELSE IF fault = "gap" THEN 1 ELSE -1)])

\* The flows of the days from `first`, with `extra` more values than days, and a
\* negative value at position DefectAt when asked for.
FlowsOf(first, n, pattern, extra, negative) ==
    Array([i \in 1..(n + extra) |->
        IF negative /\ i = DefectAt THEN -3 ELSE Flow(pattern, first + i - 1)])

SuppliedThresholds == {None, PulseThresholds(Num(2), Num(6))}

ComputeIha ==
    /\ op = "init"
    /\ \E first \in Starts, n \in Spans, pattern \in Patterns, extra \in 0..1,
          negative \in BOOLEAN, fault \in DateFaults,
          pulse_thresholds \in SuppliedThresholds, min_years \in 0..MaxYears :
          /\ args' = [q |-> FlowsOf(first, n, pattern, extra, negative),
                      dates |-> DatesOf(first, n, fault),
                      zero_flow_threshold |-> Num(1),
                      pulse_thresholds |-> pulse_thresholds,
                      min_years |-> min_years]
          /\ ret' = compute_iha(args'.q, args'.dates, args'.zero_flow_threshold,
                                args'.pulse_thresholds, args'.min_years)
    /\ op' = "compute_iha"
    /\ UNCHANGED <<natural, impacted>>

ExtractYearSlices ==
    /\ op = "init"
    /\ \E first \in Starts, n \in Spans, fault \in DateFaults :
          /\ args' = [dates |-> DatesOf(first, n, fault)]
          /\ ret' = extract_year_slices(args'.dates)
    /\ op' = "extract_year_slices"
    /\ UNCHANGED <<natural, impacted>>

\* The values tried as low and high of a PulseThresholds.
ThresholdLevels == {Num(-1), Num(0), Num(2), Num(6), NaN}

\* The caller constructs a PulseThresholds.
NewPulseThresholds ==
    /\ op = "init"
    /\ \E low \in ThresholdLevels, high \in ThresholdLevels :
          /\ args' = [low |-> low, high |-> high]
          /\ ret' = IF PulseThresholds_post_init(low, high) THEN Ok(PulseThresholds(low, high))
                    ELSE Raise([type |-> "ValueError"])
    /\ op' = "PulseThresholds"
    /\ UNCHANGED <<natural, impacted>>

PulseThresholdsFromRecord ==
    /\ op = "init"
    /\ \E first \in Starts, n \in Spans \ {0}, pattern \in Patterns :
          /\ args' = [q |-> FlowsOf(first, n, pattern, 0, FALSE)]
          /\ ret' = pulse_thresholds_from_record(args'.q)
    /\ op' = "pulse_thresholds_from_record"
    /\ UNCHANGED <<natural, impacted>>

NextIha ==
    \/ ComputeIha
    \/ ExtractYearSlices
    \/ NewPulseThresholds
    \/ PulseThresholdsFromRecord

SpecIha == Init /\ [][NextIha]_vars

(***************************************************************************)
(* IHAResults of any shape, as the tests build them from np.ones((n, c)):   *)
(* n rows of c columns, every entry 1, with the years from FirstYear.      *)
(***************************************************************************)
ColumnCounts == {10, N_PARAMS}

ones_result(n, c) ==
    IHAResult([i \in 1..n |-> [j \in 1..c |-> Num(1)]],
              c,
              [i \in 1..n |-> FirstYear + i - 1],
              Num(1),
              PulseThresholds(Num(5), Num(50)))

SupplyShapes ==
    /\ op = "init"
    /\ \E n \in 0..MaxYears, m \in 0..MaxYears, c \in ColumnCounts, d \in ColumnCounts :
          /\ natural' = ones_result(n, c)
          /\ impacted' = ones_result(m, d)
    /\ op' = "supply"
    /\ UNCHANGED <<args, ret>>

NextShapes ==
    \/ SupplyShapes
    \/ ComputeDhram
    \/ ComputeIari

SpecShapes == Init /\ [][NextShapes]_vars

(***************************************************************************)
(* fishy.dhram.evaluate: DHRAM of every shared natural Reach of a pair of   *)
(* simulated water systems.  A system is its frequency, its start date (a  *)
(* date or None), its nodes (id -> kind), its edges and the output   *)
(* trace of each Reach.  Node ids are numbers standing for the names, in   *)
(* the order in which sorted() puts the names.                             *)
(***************************************************************************)
DAILY == 365

MONTHLY == 12

NATURAL_TAG == "natural"

WaterSystem(frequency, start_date, nodes, edges, traces) ==
    [frequency |-> frequency, start_date |-> start_date, nodes |-> nodes,
     edges |-> edges, traces |-> traces]

natural_reach_ids(system) ==
    LET natural_edges == {e \in system.edges : NATURAL_TAG \in e.tags}
        has_natural_incoming == {e.target : e \in natural_edges}
        has_natural_outgoing == {e.source : e \in natural_edges}
    IN  {nid \in has_natural_incoming \cap has_natural_outgoing : system.nodes[nid] = "Reach"}

ReachNotFoundError(system, reach_id) ==
    [type |-> "ReachNotFoundError", reach_id |-> reach_id,
     available_reach_ids |-> {nid \in DOMAIN system.nodes : system.nodes[nid] = "Reach"}]

\* The flow extraction of a location: the trace recorded for the Reach, or a domain
\* error for a location the system does not have.
reach_trace(system, reach_id) ==
    IF reach_id \in DOMAIN system.traces THEN Ok(system.traces[reach_id])
    ELSE Raise(ReachNotFoundError(system, reach_id))

date(day) == [day |-> day]

\* max(timesteps) of an empty trace is a ValueError; time_index puts timestep t on the
\* day start_date + t.
extract_reach_flow(system, reach_id) ==
    With(reach_trace(system, reach_id), LAMBDA trace :
    IF ~trace.ok THEN trace
    ELSE IF Len(trace.val.timesteps) = 0 THEN Raise([type |-> "ValueError"])
    ELSE Ok([q |-> trace.val.values,
             dates |-> [i \in 1..Len(trace.val.timesteps) |->
                           system.start_date.day + trace.val.timesteps[i]]]))

\* The IHA part of the pipeline of one reach, with the impacted IHA computed from the
\* thresholds of the impacted record.
reach_iha_own_thresholds(nat, imp, rid, zero_flow_threshold, min_years) ==
    With(extract_reach_flow(nat, rid), LAMBDA nat_flow :
    IF ~nat_flow.ok THEN nat_flow
    ELSE With(pulse_thresholds_from_record(nat_flow.val.q), LAMBDA thresholds :
    IF ~thresholds.ok THEN thresholds
    ELSE With(compute_iha(nat_flow.val.q, nat_flow.val.dates, zero_flow_threshold,
                          thresholds.val, min_years), LAMBDA nat_iha :
    IF ~nat_iha.ok THEN nat_iha
    ELSE With(extract_reach_flow(imp, rid), LAMBDA imp_flow :
    IF ~imp_flow.ok THEN imp_flow
    ELSE With(compute_iha(imp_flow.val.q, imp_flow.val.dates, zero_flow_threshold,
                          None, min_years), LAMBDA imp_iha :
    IF ~imp_iha.ok THEN imp_iha
    ELSE Ok([natural |-> nat_iha.val, impacted |-> imp_iha.val]))))))

\* The IHA part of the pipeline of one reach: both IHA results, or the first error.
reach_iha(nat, imp, rid, zero_flow_threshold, min_years) ==
    With(extract_reach_flow(nat, rid), LAMBDA nat_flow :
    IF ~nat_flow.ok THEN nat_flow
    ELSE With(pulse_thresholds_from_record(nat_flow.val.q), LAMBDA thresholds :
    IF ~thresholds.ok THEN thresholds
    ELSE With(compute_iha(nat_flow.val.q, nat_flow.val.dates, zero_flow_threshold,
                          thresholds.val, min_years), LAMBDA nat_iha :
    IF ~nat_iha.ok THEN nat_iha
    ELSE With(extract_reach_flow(imp, rid), LAMBDA imp_flow :
    IF ~imp_flow.ok THEN imp_flow
    ELSE With(compute_iha(imp_flow.val.q, imp_flow.val.dates, zero_flow_threshold,
                          thresholds.val, min_years), LAMBDA imp_iha :
    IF ~imp_iha.ok THEN imp_iha
    ELSE Ok([natural |-> nat_iha.val, impacted |-> imp_iha.val]))))))

\* The body of the try block for one reach: its DHRAMResult, or the exception raised.
reach_pipeline(nat, imp, rid, o) ==
    With(reach_iha(nat, imp, rid, o.zero_flow_threshold, o.min_years), LAMBDA iha :
    IF ~iha.ok THEN iha
    ELSE compute_dhram(iha.val.natural, iha.val.impacted, o.threshold_variant,
                       o.flow_cessation, o.subdaily_oscillation, o.min_years))

put(dict, key, value) ==
    [k \in DOMAIN dict \cup {key} |-> IF k = key THEN value ELSE dict[k]]

RECURSIVE reach_loop_break_on_error(_, _, _, _, _, _)
\* The loop over the selected reaches, left at the first reach that fails.
reach_loop_break_on_error(nat, imp, selected, o, results, errors) ==
    IF Len(selected) = 0 THEN [results |-> results, errors |-> errors]
    ELSE With(reach_pipeline(nat, imp, Head(selected), o), LAMBDA outcome :
         IF outcome.ok
         THEN reach_loop_break_on_error(nat, imp, Tail(selected), o,
                                        put(results, Head(selected), outcome.val), errors)
         ELSE [results |-> results, errors |-> put(errors, Head(selected), outcome.err)])

RECURSIVE reach_loop(_, _, _, _, _, _)
\* The loop over the selected reaches, filling the results and the errors.
reach_loop(nat, imp, selected, o, results, errors) ==
    IF Len(selected) = 0 THEN [results |-> results, errors |-> errors]
    ELSE With(reach_pipeline(nat, imp, Head(selected), o), LAMBDA outcome :
         IF outcome.ok
         THEN reach_loop(nat, imp, Tail(selected), o,
                         put(results, Head(selected), outcome.val), errors)
         ELSE reach_loop(nat, imp, Tail(selected), o,
                         results, put(errors, Head(selected), outcome.err)))

NonDailyFrequencyError(frequency) == [type |-> "NonDailyFrequencyError", frequency |-> frequency]

MissingStartDateError == [type |-> "MissingStartDateError"]

NoCommonReachesError(nat, imp) ==
    [type |-> "NoCommonReachesError", natural_reach_ids |-> natural_reach_ids(nat),
     impacted_reach_ids |-> natural_reach_ids(imp)]

ReachEvaluationError(reach_errors) ==
    [type |-> "ReachEvaluationError", reach_errors |-> reach_errors]

\* The prerequisites, with the start dates checked before the frequencies.
prerequisite_error_dates_first(nat, imp) ==
    IF nat.start_date = None THEN Raise(MissingStartDateError)
    ELSE IF imp.start_date = None THEN Raise(MissingStartDateError)
    ELSE IF nat.frequency # DAILY THEN Raise(NonDailyFrequencyError(nat.frequency))
    ELSE IF imp.frequency # DAILY THEN Raise(NonDailyFrequencyError(imp.frequency))
    ELSE None

prerequisite_error(nat, imp) ==
    IF nat.frequency # DAILY THEN Raise(NonDailyFrequencyError(nat.frequency))
    ELSE IF imp.frequency # DAILY THEN Raise(NonDailyFrequencyError(imp.frequency))
    ELSE IF nat.start_date = None THEN Raise(MissingStartDateError)
    ELSE IF imp.start_date = None THEN Raise(MissingStartDateError)
    ELSE None

RECURSIVE sorted(_)
sorted(s) ==
    IF s = {} THEN << >>
    ELSE With(CHOOSE x \in s : \A y \in s : x <= y, LAMBDA least :
         << least >> \o sorted(s \ {least}))

\* The reaches to evaluate: the ones asked for, or the shared natural reaches in order.
selected_reaches(nat, imp, reach_ids) ==
    IF reach_ids # None THEN reach_ids.items
    ELSE sorted(natural_reach_ids(nat) \cap natural_reach_ids(imp))

\* evaluate_dhram raising the aggregate error as soon as one reach has failed.
evaluate_dhram_any_failure(nat, imp, reach_ids, o) ==
    With(prerequisite_error(nat, imp), LAMBDA error :
    IF error # None THEN error
    ELSE With(selected_reaches(nat, imp, reach_ids), LAMBDA selected :
    IF Len(selected) = 0 THEN Raise(NoCommonReachesError(nat, imp))
    ELSE With(reach_loop(nat, imp, selected, o, << >>, << >>), LAMBDA done :
    IF DOMAIN done.errors # {} THEN Raise(ReachEvaluationError(done.errors))
    ELSE Ok(done.results))))

evaluate_dhram(nat, imp, reach_ids, o) ==
    With(prerequisite_error(nat, imp), LAMBDA error :
    IF error # None THEN error
    ELSE With(selected_reaches(nat, imp, reach_ids), LAMBDA selected :
    IF Len(selected) = 0 THEN Raise(NoCommonReachesError(nat, imp))
    ELSE With(reach_loop(nat, imp, selected, o, << >>, << >>), LAMBDA done :
    IF DOMAIN done.results = {} THEN Raise(ReachEvaluationError(done.errors))
    ELSE Ok(done.results))))

(***************************************************************************)
(* fishy.iha.bridge, fishy.iari.objective and fishy.iari.evaluate          *)
(***************************************************************************)
NotAReachError(node_id, actual_type) ==
    [type |-> "NotAReachError", node_id |-> node_id, actual_type |-> actual_type]

EmptyReachTraceError(reach_id) == [type |-> "EmptyReachTraceError", reach_id |-> reach_id]

iha_from_reach(system, reach_id, zero_flow_threshold, pulse_thresholds, min_years) ==
    IF system.frequency # DAILY THEN Raise(NonDailyFrequencyError(system.frequency))
    ELSE IF system.start_date = None THEN Raise(MissingStartDateError)
    ELSE IF reach_id \notin DOMAIN system.nodes THEN Raise(ReachNotFoundError(system, reach_id))
    ELSE IF system.nodes[reach_id] # "Reach"
         THEN Raise(NotAReachError(reach_id, system.nodes[reach_id]))
    ELSE With(reach_trace(system, reach_id), LAMBDA trace :
         IF ~trace.ok THEN trace
         ELSE IF Len(trace.val.timesteps) = 0 THEN Raise(EmptyReachTraceError(reach_id))
         ELSE compute_iha(trace.val.values,
                          [i \in 1..Len(trace.val.timesteps) |->
                              system.start_date.day + trace.val.timesteps[i]],
                          zero_flow_threshold, pulse_thresholds, min_years))

\* iari_objective(bands, reach_id, ...).evaluate(system): the overall score of the
\* Reach of the system against the bands.
iari_objective(bands, reach_id, zero_flow_threshold, min_years, system) ==
    With(iha_from_reach(system, reach_id, zero_flow_threshold, bands.pulse_thresholds,
                        min_years), LAMBDA iha :
    IF ~iha.ok THEN iha
    ELSE With(compute_deviations(iha.val.values, bands), LAMBDA deviations :
         Ok(Mean([i \in 1..Len(deviations) |-> Mean(deviations[i])]))))

\* The work of evaluate_iari for one reach: its IARIResult, or the exception raised.
iari_reach_pipeline(nat, imp, rid, o) ==
    With(reach_iha(nat, imp, rid, o.zero_flow_threshold, o.min_years), LAMBDA iha :
    IF ~iha.ok THEN iha
    ELSE compute_iari(iha.val.natural, iha.val.impacted, o.min_years))

RECURSIVE iari_reach_loop(_, _, _, _, _, _)
iari_reach_loop(nat, imp, selected, o, results, errors) ==
    IF Len(selected) = 0 THEN [results |-> results, errors |-> errors]
    ELSE With(iari_reach_pipeline(nat, imp, Head(selected), o), LAMBDA outcome :
         IF outcome.ok
         THEN iari_reach_loop(nat, imp, Tail(selected), o,
                              put(results, Head(selected), outcome.val), errors)
         ELSE iari_reach_loop(nat, imp, Tail(selected), o,
                              results, put(errors, Head(selected), outcome.err)))

\* evaluate_iari: the IARIResult of every selected reach that could be evaluated,
\* under the prerequisites and the selection of the batch evaluation.
evaluate_iari(nat, imp, reach_ids, o) ==
    With(prerequisite_error(nat, imp), LAMBDA error :
    IF error # None THEN error
    ELSE With(selected_reaches(nat, imp, reach_ids), LAMBDA selected :
    IF Len(selected) = 0 THEN Raise(NoCommonReachesError(nat, imp))
    ELSE With(iari_reach_loop(nat, imp, selected, o, << >>, << >>), LAMBDA done :
    IF DOMAIN done.results = {} THEN Raise(ReachEvaluationError(done.errors))
    ELSE Ok(done.results))))

(***************************************************************************)
(* The simulated systems: the networks of the tests (source -> reach ->    *)
(* sink; source -> reach 1 -> splitter -> reaches 2 and 3 -> sinks; the    *)
(* same with reach 3 off the natural path; source -> sink), each Reach     *)
(* with the trace its scenario gives it.                                   *)
(***************************************************************************)
N_STEPS == 400

ShortSteps == 100

edge(source, target, tags) == [source |-> source, target |-> target, tags |-> tags]

\* Node 0 is the source, 1 to 3 are reaches, 4 is the splitter, 8 and 9 are sinks.
nodes(ids) ==
    [nid \in ids |-> IF nid = 0 THEN "Source" ELSE IF nid \in 1..3 THEN "Reach"
                     ELSE IF nid = 4 THEN "Splitter" ELSE "Sink"]

Networks ==
    [simple |-> [nodes |-> nodes({0, 1, 8}),
                 edges |-> {edge(0, 1, {NATURAL_TAG}), edge(1, 8, {NATURAL_TAG})}],
     multi |-> [nodes |-> nodes({0, 1, 2, 3, 4, 8, 9}),
                edges |-> {edge(0, 1, {NATURAL_TAG}), edge(1, 4, {NATURAL_TAG}),
                           edge(4, 2, {NATURAL_TAG}), edge(4, 3, {NATURAL_TAG}),
                           edge(2, 8, {NATURAL_TAG}), edge(3, 9, {NATURAL_TAG})}],
     diverted |-> [nodes |-> nodes({0, 1, 2, 3, 4, 8, 9}),
                   edges |-> {edge(0, 1, {NATURAL_TAG}), edge(1, 4, {NATURAL_TAG}),
                              edge(4, 2, {NATURAL_TAG}), edge(4, 3, {}),
                              edge(2, 8, {NATURAL_TAG}), edge(3, 9, {})}],
     bare |-> [nodes |-> nodes({0, 8}),
               edges |-> {edge(0, 8, {NATURAL_TAG})}]]

\* What the Reach nodes 1, 2, 3 record in each scenario.
Scenarios ==
    { << "saw", "saw", "saw" >>,
      << "double", "dry", "saw" >>,
      << "dry", "double", "negative" >>,
      << "short", "empty", "dry" >> }

\* One output per simulated timestep, from timestep 0: the weekly saw, twice the saw,
\* no flow, the saw with a negative value, the saw over too few days, or nothing.
Trace(kind) ==
    With(IF kind = "empty" THEN 0 ELSE IF kind = "short" THEN ShortSteps ELSE N_STEPS, LAMBDA n :
    [values |-> [i \in 1..n |->
                    IF kind = "negative" /\ i = DefectAt THEN -3
                    ELSE (IF kind = "dry" THEN 0 ELSE IF kind = "double" THEN 2 ELSE 1)
                         * Flow("saw", YearStart(FirstYear) + i - 1)],
     timesteps |-> [i \in 1..n |-> i - 1]])

make_system(network, scenario, frequency, start_date) ==
    WaterSystem(frequency, start_date, Networks[network].nodes, Networks[network].edges,
                [rid \in {nid \in DOMAIN Networks[network].nodes :
                             Networks[network].nodes[nid] = "Reach"} |-> Trace(scenario[rid])])

Systems ==
    {make_system("multi", scenario, DAILY, date(YearStart(FirstYear))) : scenario \in Scenarios}
    \cup {make_system("diverted", << "double", "saw", "saw" >>, DAILY, date(YearStart(FirstYear)))}
    \cup {make_system("bare", << >>, DAILY, date(YearStart(FirstYear)))}
    \cup {make_system("simple", << "saw" >>, frequency, start_date) :
              frequency \in {DAILY, MONTHLY}, start_date \in {None, date(YearStart(FirstYear))}}

\* reach_ids: None, or a list of node names.
list(items) == [items |-> items]

ReachIdLists ==
    {None, list(<< >>), list(<< 2 >>), list(<< 3, 1 >>), list(<< 1, 2, 3 >>), list(<< 5 >>)}

Simulate ==
    /\ op = "init"
    /\ natural' \in Systems
    /\ impacted' \in Systems
    /\ op' = "simulate"
    /\ UNCHANGED <<args, ret>>

EvaluateDhram ==
    /\ op = "simulate"
    /\ \E reach_ids \in ReachIdLists, min_years \in {1, MaxYears} :
          /\ args' = [reach_ids |-> reach_ids, threshold_variant |-> "empirical",
                      flow_cessation |-> FALSE, subdaily_oscillation |-> FALSE,
                      zero_flow_threshold |-> Num(1), min_years |-> min_years]
          /\ ret' = evaluate_dhram(natural, impacted, reach_ids, args')
    /\ op' = "evaluate_dhram"
    /\ UNCHANGED <<natural, impacted>>

NextBatch ==
    \/ Simulate
    \/ EvaluateDhram

SpecBatch == Init /\ [][NextBatch]_vars

(***************************************************************************)
(* The group computations and run_lengths on short arrays: every array of  *)
(* at most MaxLen flows from FlowLevels, every boolean mask of at most      *)
(* MaxLen entries, and the pulse thresholds that PulseThresholds accepts   *)
(* among PulseLevels, so that a flow can equal a threshold.                *)
(***************************************************************************)
MaxLen == 5

FlowLevels == 0..3

PulseLevels == {Num(1), Num(2), NaN}

ShortFlows == UNION {[1..n -> FlowLevels] : n \in 1..MaxLen}

Masks == UNION {[1..n -> BOOLEAN] : n \in 0..MaxLen}

RunLengths ==
    /\ op = "init"
    /\ \E mask \in Masks :
          /\ args' = [mask |-> mask]
          /\ ret' = Ok(run_lengths(mask))
    /\ op' = "run_lengths"
    /\ UNCHANGED <<natural, impacted>>

ComputeGroup4 ==
    /\ op = "init"
    /\ \E q \in ShortFlows, low \in PulseLevels, high \in PulseLevels :
          /\ PulseThresholds_post_init(low, high)
          /\ args' = [q |-> q, low_thresh |-> low, high_thresh |-> high]
          /\ ret' = Ok(compute_group4(q, low, high))
    /\ op' = "compute_group4"
    /\ UNCHANGED <<natural, impacted>>

ComputeGroup5 ==
    /\ op = "init"
    /\ \E q \in ShortFlows :
          /\ args' = [q |-> q]
          /\ ret' = Ok(compute_group5(q))
    /\ op' = "compute_group5"
    /\ UNCHANGED <<natural, impacted>>

NextGroups ==
    \/ RunLengths
    \/ ComputeGroup4
    \/ ComputeGroup5

SpecGroups == Init /\ [][NextGroups]_vars

(***************************************************************************)
(* Pairs of IHAResults that differ in the zero-flow-day-count and           *)
(* base-flow-index columns alone: a natural and an impacted result as the   *)
(* tests build them, with those two columns overwritten in every row by a   *)
(* value from ColumnValues.                                                *)
(***************************************************************************)
ColumnValues == {Num(3), NaN}

\* The result with zero_flow_days and bfi written into those two columns of every row.
with_columns(result, zero_flow_days, base_flow_index) ==
    [result EXCEPT !.values =
        [i \in 1..Len(result.values) |->
            [j \in 1..result.n_cols |->
                IF j - 1 = ZERO_FLOW_DAYS THEN zero_flow_days
                ELSE IF j - 1 = BASE_FLOW_INDEX THEN base_flow_index
                ELSE result.values[i][j]]]]

SupplyColumns ==
    /\ op = "init"
    /\ \E n \in 1..MaxYears, m \in 1..MaxYears,
          a \in ColumnValues, b \in ColumnValues, c \in ColumnValues, d \in ColumnValues :
          /\ natural' = with_columns(make_iha_result(n, 10, 20, "flat"), a, b)
          /\ impacted' = with_columns(make_iha_result(m, 0, 20, "late"), c, d)
    /\ op' = "supply"
    /\ UNCHANGED <<args, ret>>

NextColumns ==
    \/ SupplyColumns
    \/ ComputeDhram
    \/ ComputeIari

SpecColumns == Init /\ [][NextColumns]_vars

(***************************************************************************)
(* Scoring a regime against its own bands, and compute_iari on results of   *)
(* compute_iha.  A system is source -> reach -> sink with the weekly saw    *)
(* times a factor recorded over N_STEPS days (one complete year) or         *)
(* LONG_STEPS days (two); a record is one or two calendar years of a flow   *)
(* pattern, with supplied pulse thresholds so that a record without flow    *)
(* is valid.                                                               *)
(***************************************************************************)
LONG_STEPS == 800

saw_trace(n, factor) ==
    [values |-> [i \in 1..n |-> factor * Flow("saw", YearStart(FirstYear) + i - 1)],
     timesteps |-> [i \in 1..n |-> i - 1]]

SawSystems ==
    {WaterSystem(DAILY, date(YearStart(FirstYear)), Networks.simple.nodes, Networks.simple.edges,
                 [rid \in {1} |-> saw_trace(n, factor)]) :
        n \in {N_STEPS, LONG_STEPS}, factor \in 0..2}

SimulateSaw ==
    /\ op = "init"
    /\ natural' \in SawSystems
    /\ impacted' \in SawSystems
    /\ op' = "simulate"
    /\ UNCHANGED <<args, ret>>

EvaluateIari ==
    /\ op = "simulate"
    /\ \E reach_ids \in {None, list(<< 1 >>)}, min_years \in {1, MaxYears} :
          /\ args' = [reach_ids |-> reach_ids, zero_flow_threshold |-> Num(1),
                      min_years |-> min_years]
          /\ ret' = evaluate_iari(natural, impacted, reach_ids, args')
    /\ op' = "evaluate_iari"
    /\ UNCHANGED <<natural, impacted>>

\* The bands of the Reach of the natural system, and the objective built from them
\* evaluated on the impacted system.
IariObjective ==
    /\ op = "simulate"
    /\ \E min_years \in {1, MaxYears} :
          /\ args' = [reach_id |-> 1, zero_flow_threshold |-> Num(1), min_years |-> min_years]
          /\ ret' = With(iha_from_reach(natural, 1, Num(1), None, 1), LAMBDA iha :
                    IF ~iha.ok THEN iha
                    ELSE With(bands_from_iha(iha.val), LAMBDA bands :
                    IF ~bands.ok THEN bands
                    ELSE iari_objective(bands.val, 1, Num(1), min_years, impacted)))
    /\ op' = "iari_objective"
    /\ UNCHANGED <<natural, impacted>>

RecordSpans == {366, 731}

RecordPatterns == {"saw", "dry"}

\* The IHAResult of a record of `n` days of a pattern from the first day of FirstYear.
iha_of_record(n, pattern) ==
    compute_iha(FlowsOf(YearStart(FirstYear), n, pattern, 0, FALSE),
                DatesOf(YearStart(FirstYear), n, "none"),
                Num(1), PulseThresholds(Num(2), Num(6)), 1).val

SupplyIha ==
    /\ op = "init"
    /\ \E n \in RecordSpans, pattern \in RecordPatterns : natural' = iha_of_record(n, pattern)
    /\ \E n \in RecordSpans, pattern \in RecordPatterns : impacted' = iha_of_record(n, pattern)
    /\ op' = "supply"
    /\ UNCHANGED <<args, ret>>

NextIari ==
    \/ SimulateSaw
    \/ EvaluateIari
    \/ IariObjective
    \/ SupplyIha
    \/ ComputeIari

SpecIari == Init /\ [][NextIari]_vars

(***************************************************************************)
(* fishy.naturalize: a system is its nodes by id and its edges by id.  A    *)
(* node has a type, a split policy (Splitter) and metadata; an edge has a   *)
(* source, a target and tags.  The ratios held under NATURAL_SPLIT_RATIOS   *)
(* are fixed ratios by target.                                             *)
(***************************************************************************)
NATURAL_SPLIT_RATIOS == "natural_split_ratios"

NoNaturalPathError(source_ids, sink_ids) ==
    [type |-> "NoNaturalPathError", source_ids |-> source_ids, sink_ids |-> sink_ids]

NoNaturalReachError(path_node_ids, source_ids, sink_ids) ==
    [type |-> "NoNaturalReachError", path_node_ids |-> path_node_ids,
     source_ids |-> source_ids, sink_ids |-> sink_ids]

AmbiguousSplitError(node_id, natural_edge_ids) ==
    [type |-> "AmbiguousSplitError", node_id |-> node_id, natural_edge_ids |-> natural_edge_ids]

InvalidNaturalSplitRatiosError(node_id, reason) ==
    [type |-> "InvalidNaturalSplitRatiosError", node_id |-> node_id, reason |-> reason]

TerminalDemandError(node_id, downstream_edge_ids) ==
    [type |-> "TerminalDemandError", node_id |-> node_id,
     downstream_edge_ids |-> downstream_edge_ids]

\* The ids of the edges tagged natural.
extract_natural_edges(system) ==
    {eid \in DOMAIN system.edges : NATURAL_TAG \in system.edges[eid].tags}

\* nx.DiGraph of the natural edges: the endpoints and the (source, target) pairs.
build_natural_graph(system, natural_edges) ==
    [nodes |-> {system.edges[eid].source : eid \in natural_edges}
                  \cup {system.edges[eid].target : eid \in natural_edges},
     edges |-> {<<system.edges[eid].source, system.edges[eid].target>> : eid \in natural_edges}]

find_sources(system) == {nid \in DOMAIN system.nodes : system.nodes[nid].type = "Source"}

find_sinks(system) == {nid \in DOMAIN system.nodes : system.nodes[nid].type = "Sink"}

RECURSIVE closure(_, _)
\* The nodes reached from `found` along the pairs, `found` included.
closure(pairs, found) ==
    With(found \cup {p[2] : p \in {p \in pairs : p[1] \in found}}, LAMBDA more :
    IF more = found THEN found ELSE closure(pairs, more))

\* nx.descendants: the nodes reachable from a node, the node itself left out.
descendants(graph, node) == closure(graph.edges, {node}) \ {node}

\* nx.ancestors: the nodes a node is reachable from, the node itself left out.
ancestors(graph, node) == closure({<<p[2], p[1]>> : p \in graph.edges}, {node}) \ {node}

\* find_natural_path_nodes with the forward reachability alone.
find_natural_path_nodes_forward(graph, sources, sinks) ==
    IF graph.nodes = {} THEN {}
    ELSE UNION {descendants(graph, source) \cup {source} : source \in sources \cap graph.nodes}

find_natural_path_nodes(graph, sources, sinks) ==
    IF graph.nodes = {} THEN {}
    ELSE LET reachable_from_sources ==
                 UNION {descendants(graph, source) \cup {source} :
                           source \in sources \cap graph.nodes}
             can_reach_sinks ==
                 UNION {ancestors(graph, sink) \cup {sink} : sink \in sinks \cap graph.nodes}
         IN  reachable_from_sources \cap can_reach_sinks

\* Each validation gives None or the exception it raises.
validate_natural_paths_exist(natural_path_nodes, sources, sinks) ==
    IF natural_path_nodes = {} THEN Raise(NoNaturalPathError(sources, sinks))
    ELSE IF natural_path_nodes \cap sources = {} \/ natural_path_nodes \cap sinks = {}
         THEN Raise(NoNaturalPathError(sources, sinks))
    ELSE None

\* nx.weakly_connected_components of the natural graph.
weakly_connected_components(graph) ==
    {closure(graph.edges \cup {<<p[2], p[1]>> : p \in graph.edges}, {n}) : n \in graph.nodes}

validate_natural_reach_exists(system, natural_graph, natural_path_nodes) ==
    LET reachless == {c \in weakly_connected_components(natural_graph) :
                         /\ c \cap natural_path_nodes # {}
                         /\ \A nid \in c \cap natural_path_nodes :
                               system.nodes[nid].type # "Reach"}
    IN  IF reachless = {} THEN None
        ELSE With((CHOOSE c \in reachless : TRUE) \cap natural_path_nodes, LAMBDA path_nodes :
             Raise(NoNaturalReachError(path_nodes, path_nodes \cap find_sources(system),
                                       path_nodes \cap find_sinks(system))))

has_natural_river_splitter(node) == node.split_policy = "NaturalRiverSplitter"

has_natural_split_ratios(node) == NATURAL_SPLIT_RATIOS \in DOMAIN node.metadata

RECURSIVE ratio_total(_, _)
\* sum(ratios.values()) over the targets given.
ratio_total(ratios, targets) ==
    IF targets = {} THEN Num(0)
    ELSE With(CHOOSE t \in targets : TRUE, LAMBDA t :
         RAdd(ratios[t], ratio_total(ratios, targets \ {t})))

validate_fixed_ratios(node_id, ratios) ==
    IF \E t \in DOMAIN ratios : RLt(ratios[t], Num(0)) \/ RGt(ratios[t], Num(1))
    THEN Raise(InvalidNaturalSplitRatiosError(node_id, "range"))
    ELSE IF ratio_total(ratios, DOMAIN ratios) # Num(1)
         THEN Raise(InvalidNaturalSplitRatiosError(node_id, "sum"))
    ELSE None

validate_natural_split_ratios(node_id, node, natural_downstream_targets) ==
    With(node.metadata[NATURAL_SPLIT_RATIOS], LAMBDA ratios :
    IF DOMAIN ratios = {} THEN Raise(InvalidNaturalSplitRatiosError(node_id, "empty"))
    ELSE IF DOMAIN ratios # natural_downstream_targets
         THEN Raise(InvalidNaturalSplitRatiosError(node_id, "targets"))
    ELSE validate_fixed_ratios(node_id, ratios))

\* The outcome of the checks of one splitter on the natural path.
validate_splitter(system, natural_edges, node_id) ==
    LET node == system.nodes[node_id]
        natural_downstream == {eid \in natural_edges : system.edges[eid].source = node_id}
    IN  IF Cardinality(natural_downstream) <= 1 THEN None
        ELSE IF has_natural_river_splitter(node) THEN None
        ELSE IF has_natural_split_ratios(node)
             THEN validate_natural_split_ratios(
                      node_id, node, {system.edges[eid].target : eid \in natural_downstream})
        ELSE Raise(AmbiguousSplitError(node_id, natural_downstream))

validate_splitters(system, natural_edges, natural_path_nodes) ==
    LET failing == {nid \in natural_path_nodes :
                       /\ nid \in DOMAIN system.nodes
                       /\ system.nodes[nid].type = "Splitter"
                       /\ validate_splitter(system, natural_edges, nid) # None}
    IN  IF failing = {} THEN None
        ELSE validate_splitter(system, natural_edges, CHOOSE nid \in failing : TRUE)

validate_no_terminal_demands(system, natural_edges, natural_path_nodes) ==
    LET terminal == {nid \in natural_path_nodes :
                        /\ nid \in DOMAIN system.nodes
                        /\ system.nodes[nid].type = "Demand"
                        /\ {eid \in natural_edges : system.edges[eid].source = nid} = {}}
    IN  IF terminal = {} THEN None
        ELSE With(CHOOSE nid \in terminal : TRUE, LAMBDA node_id :
             Raise(TerminalDemandError(
                 node_id, {eid \in DOMAIN system.edges : system.edges[eid].source = node_id})))

\* The node of the naturalized system for a node of the natural path.
transform_node(node) ==
    IF node.type \in {"Source", "Sink", "PassThrough", "Reach"} THEN node
    ELSE IF node.type = "Storage"
         THEN [node EXCEPT !.type = "PassThrough",
                           !.tags = @ \cup {"naturalized_from_storage"}]
    ELSE IF node.type = "Demand"
         THEN [node EXCEPT !.type = "PassThrough",
                           !.tags = @ \cup {"naturalized_from_demand"}]
    ELSE IF has_natural_river_splitter(node) THEN node
    ELSE IF has_natural_split_ratios(node)
         THEN [node EXCEPT !.split_policy = "NaturalRiverSplitter"]
    ELSE [node EXCEPT !.type = "PassThrough", !.split_policy = "none",
                      !.tags = @ \cup {"naturalized_from_splitter"}]

transform_nodes(system, natural_path_nodes) ==
    [new_nodes |-> [nid \in natural_path_nodes |-> transform_node(system.nodes[nid])],
     transformed |->
        [nid \in {n \in natural_path_nodes :
                     \/ system.nodes[n].type \in {"Storage", "Demand"}
                     \/ /\ system.nodes[n].type = "Splitter"
                        /\ ~has_natural_river_splitter(system.nodes[n])
                        /\ ~has_natural_split_ratios(system.nodes[n])}
            |-> system.nodes[nid].type]]

\* filter_edges keeping every edge between retained nodes, natural or not.
filter_edges_any_tag(system, natural_edges, retained_node_ids) ==
    [eid \in {e \in DOMAIN system.edges :
                 /\ system.edges[e].source \in retained_node_ids
                 /\ system.edges[e].target \in retained_node_ids} |-> system.edges[eid]]

filter_edges(system, natural_edges, retained_node_ids) ==
    [eid \in {e \in natural_edges :
                 /\ system.edges[e].source \in retained_node_ids
                 /\ system.edges[e].target \in retained_node_ids} |-> system.edges[eid]]

build_system(frequency, new_nodes, new_edges) ==
    [frequency |-> frequency, nodes |-> new_nodes, edges |-> new_edges]

generate_warnings(removed_nodes, removed_edges, original) ==
    (IF removed_nodes # {} THEN << [removed_nodes |-> removed_nodes] >> ELSE << >>)
    \o (IF removed_edges # {}
           /\ Cardinality(DOMAIN original.edges \ extract_natural_edges(original)) > 0
        THEN << [non_natural_edges |->
                    Cardinality(DOMAIN original.edges \ extract_natural_edges(original))] >>
        ELSE << >>)

naturalize(system) ==
    LET natural_edges == extract_natural_edges(system)
        natural_graph == build_natural_graph(system, natural_edges)
        sources == find_sources(system)
        sinks == find_sinks(system)
        natural_path_nodes == find_natural_path_nodes(natural_graph, sources, sinks)
        paths == validate_natural_paths_exist(natural_path_nodes, sources, sinks)
        reach == validate_natural_reach_exists(system, natural_graph, natural_path_nodes)
        splitters == validate_splitters(system, natural_edges, natural_path_nodes)
        demands == validate_no_terminal_demands(system, natural_edges, natural_path_nodes)
    IN  IF paths # None THEN paths
        ELSE IF reach # None THEN reach
        ELSE IF splitters # None THEN splitters
        ELSE IF demands # None THEN demands
        ELSE With(transform_nodes(system, natural_path_nodes), LAMBDA nodes_ :
             With(filter_edges(system, natural_edges, DOMAIN nodes_.new_nodes), LAMBDA new_edges :
             With(DOMAIN system.nodes \ DOMAIN nodes_.new_nodes, LAMBDA removed_nodes :
             With(DOMAIN system.edges \ DOMAIN new_edges, LAMBDA removed_edges :
             Ok([system |-> build_system(system.frequency, nodes_.new_nodes, new_edges),
                 removed_nodes |-> removed_nodes,
                 removed_edges |-> removed_edges,
                 transformed_nodes |-> nodes_.transformed,
                 warnings |-> generate_warnings(removed_nodes, removed_edges, system)])))))

(***************************************************************************)
(* The systems naturalized: node 1 is the source and node 4 the sink, node  *)
(* 2 and node 3 are of any kind, and each of the five downstream            *)
(* connections is absent, tagged natural or a canal.                       *)
(***************************************************************************)
make_node(type, split_policy, metadata) ==
    [type |-> type, split_policy |-> split_policy, metadata |-> metadata, tags |-> {}]

plain(type) == make_node(type, "none", << >>)

with_ratios(ratios) ==
    make_node("Splitter", "FixedSplit", [k \in {NATURAL_SPLIT_RATIOS} |-> ratios])

UpperNodes ==
    {plain("Reach"), plain("Demand"), plain("Storage"),
     make_node("Splitter", "FixedSplit", << >>),
     make_node("Splitter", "NaturalRiverSplitter", << >>),
     with_ratios([t \in {3, 4} |-> Rat(1, 2)]),
     with_ratios([t \in {3, 4} |-> Rat(1, 4)])}

LowerNodes == {plain("Reach"), plain("Demand"), plain("Storage"), plain("Sink")}

Connections == << <<1, 2>>, <<2, 3>>, <<3, 4>>, <<2, 4>>, <<1, 3>> >>

Taggings == [1..Len(Connections) -> {"absent", NATURAL_TAG, "canal"}]

river_system(upper, lower, tagging) ==
    [frequency |-> DAILY,
     nodes |-> [nid \in 1..4 |-> IF nid = 1 THEN plain("Source")
                                 ELSE IF nid = 2 THEN upper
                                 ELSE IF nid = 3 THEN lower ELSE plain("Sink")],
     edges |-> [eid \in {i \in 1..Len(Connections) : tagging[i] # "absent"} |->
                   edge(Connections[eid][1], Connections[eid][2], {tagging[eid]})]]

BuildRiver ==
    /\ op = "init"
    /\ \E upper \in UpperNodes, lower \in LowerNodes, tagging \in Taggings :
          natural' = river_system(upper, lower, tagging)
    /\ op' = "build"
    /\ UNCHANGED <<args, ret, impacted>>

Naturalize ==
    /\ op = "build"
    /\ ret' = naturalize(natural)
    /\ op' = "naturalize"
    /\ UNCHANGED <<args, natural, impacted>>

NextNaturalize == BuildRiver \/ Naturalize

SpecNaturalize == Init /\ [][NextNaturalize]_vars

(***************************************************************************)
(* Properties of compute_dhram, classify and ScoringThresholds             *)
(***************************************************************************)
\* A call of compute_dhram that returned a result.
DhramReturned == op = "compute_dhram" /\ ret.ok

\* C1: every result of compute_dhram has final_class = min(preliminary_class +
\* (1 if flow_cessation) + (1 if subdaily_oscillation), 5), the flags being those
\* of the call; hence preliminary_class <= final_class <= 5.
C1_FinalClass ==
    DhramReturned =>
        LET r == ret.val
            flags == (IF args.flow_cessation THEN 1 ELSE 0)
                     + (IF args.subdaily_oscillation THEN 1 ELSE 0)
        IN  /\ r.flow_cessation = args.flow_cessation
            /\ r.subdaily_oscillation = args.subdaily_oscillation
            /\ r.final_class = (IF r.preliminary_class + flags <= 5
                                THEN r.preliminary_class + flags ELSE 5)
            /\ r.preliminary_class <= r.final_class
            /\ r.final_class <= 5

\* C1 witness: a result of class 4 with both flags set, capped at 5.
C1_Witness ==
    /\ DhramReturned
    /\ ret.val.preliminary_class = 4
    /\ args.flow_cessation /\ args.subdaily_oscillation
    /\ ret.val.final_class = 5

\* C2: every result of compute_dhram has exactly 10 indicators, named 1a, 1b, 2a,
\* 2b, 3a, 3b, 4a, 4b, 5a, 5b in that order, each with points in 0..3, and
\* total_points is the sum of the 10 indicators' points, so it lies in 0..30.
C2_Indicators ==
    DhramReturned =>
        LET r == ret.val
            pts(k) == r.indicators[k].points
        IN  /\ Len(r.indicators) = 10
            /\ [k \in 1..10 |-> r.indicators[k].name]
                  = << "1a", "1b", "2a", "2b", "3a", "3b", "4a", "4b", "5a", "5b" >>
            /\ \A k \in 1..10 : pts(k) \in 0..3
            /\ r.total_points = pts(1) + pts(2) + pts(3) + pts(4) + pts(5)
                                + pts(6) + pts(7) + pts(8) + pts(9) + pts(10)
            /\ r.total_points \in 0..30

\* C2 witness: a result whose indicators score both 0 and 3 points, and in which
\* an indicator other than the first scores.
C2_Witness ==
    /\ DhramReturned
    /\ \E k \in 1..10 : ret.val.indicators[k].points = 0
    /\ \E k \in 2..10 : ret.val.indicators[k].points = 3
    /\ ret.val.total_points > ret.val.indicators[1].points

\* C4: classify(p) is the 1-based index of the highest boundary of (0, 1, 5, 11,
\* 21) that is <= p: for p in 0..30 the class is 1 iff p = 0, 2 iff 1 <= p <= 4,
\* 3 iff 5 <= p <= 10, 4 iff 11 <= p <= 20, 5 iff p >= 21; the result is always
\* in 1..5 and no smaller p gets a higher class.
C4_Classify ==
    op = "classify" =>
        LET p == args.total_points
            c == ret.val
        IN  /\ c \in 1..5
            /\ p \in 0..30 =>
                  /\ (c = 1) <=> (p = 0)
                  /\ (c = 2) <=> (1 <= p /\ p <= 4)
                  /\ (c = 3) <=> (5 <= p /\ p <= 10)
                  /\ (c = 4) <=> (11 <= p /\ p <= 20)
                  /\ (c = 5) <=> (p >= 21)
            /\ \A q \in -1..p : classify(q) <= c

\* C4 witness: the lowest point total of class 4.
C4_Witness == op = "classify" /\ args.total_points = 11 /\ ret.val = 4

\* C5: for a triple with 0 <= lower <= intermediate <= upper, score(v) is 0 if
\* v < lower, 1 if lower <= v < intermediate, 2 if intermediate <= v < upper and 3
\* if v >= upper; a triple violating the ordering cannot be constructed.
C5_Score ==
    op = "score" =>
        LET t == args.thresholds
            v == args.value
            ordered == /\ ~IsNaN(t.lower) /\ ~IsNaN(t.intermediate) /\ ~IsNaN(t.upper)
                       /\ 0 <= t.lower.n
                       /\ Cmp(t.lower, t.intermediate) <= 0
                       /\ Cmp(t.intermediate, t.upper) <= 0
        IN  /\ ret.ok <=> ordered
            /\ ~ret.ok => ret.err.type = "ValueError"
            /\ ret.ok /\ ~IsNaN(v) =>
                  /\ Cmp(v, t.lower) < 0 => ret.val = 0
                  /\ Cmp(v, t.lower) >= 0 /\ Cmp(v, t.intermediate) < 0 => ret.val = 1
                  /\ Cmp(v, t.intermediate) >= 0 /\ Cmp(v, t.upper) < 0 => ret.val = 2
                  /\ Cmp(v, t.upper) >= 0 => ret.val = 3

\* C5 witness: a value on the intermediate boundary of a strictly ordered triple
\* scores 2.
C5_Witness ==
    /\ op = "score" /\ ret.ok
    /\ Cmp(args.thresholds.lower, args.thresholds.intermediate) < 0
    /\ Cmp(args.thresholds.intermediate, args.thresholds.upper) < 0
    /\ args.value = args.thresholds.intermediate
    /\ ret.val = 2

\* A call of compute_dhram(R, R) with both supplementary flags false that returned.
IdenticalReturned ==
    /\ DhramReturned
    /\ natural = impacted
    /\ ~args.flow_cessation /\ ~args.subdaily_oscillation

IariReturned == op = "compute_iari" /\ ret.ok

\* The label the thresholds 0.05 and 0.15, both inclusive, give to a score.
LabelOf(s) ==
    IF ~IsNaN(s) /\ s.n * 100 <= 5 * s.d THEN "Excellent"
    ELSE IF ~IsNaN(s) /\ s.n * 100 <= 15 * s.d THEN "Good"
    ELSE "Poor"

\* C7: classify_iari maps a score s to "Excellent" iff s <= 0.05, to "Good" iff
\* 0.05 < s <= 0.15 and to "Poor" otherwise, and the classification of every
\* result of compute_iari is that of its overall score.
C7_ClassifyIari ==
    /\ op = "classify_iari" => ret.val = LabelOf(args.value)
    /\ IariReturned => ret.val.classification = LabelOf(ret.val.overall)

\* C7 witness: the score 0.05 itself is "Excellent".
C7_Witness == op = "classify_iari" /\ args.value = Rat(5, 100) /\ ret.val = "Excellent"

\* The deviation the band rule gives value v against the band [q25, q75]: inside
\* a band with q25 < q75 it is 0, outside it max(q25 - v, v - q75) / (q75 - q25);
\* against the band [q25, q25] it is 1 if v differs from q25 and 0 if it equals it.
BandRule(v, q25, q75) ==
    IF Cmp(q25, q75) < 0
    THEN IF RLe(q25, v) /\ RLe(v, q75) THEN Num(0)
         ELSE RDiv(RMaximum(RSub(q25, v), RSub(v, q75)), RSub(q75, q25))
    ELSE IF v # q25 THEN Num(1) ELSE Num(0)

\* C6 (as stated): every entry of the matrix compute_deviations returns is the
\* band rule's deviation of the impacted value of its year and parameter against
\* the band of its parameter.
C6_Deviations ==
    op = "compute_deviations" /\ ret.ok =>
        \A i \in 1..Len(args.impacted_values) : \A j \in 1..N_PARAMS :
            ret.val[i][j] = BandRule(args.impacted_values[i][j],
                                     args.bands.q25[j], args.bands.q75[j])

\* C6 failing state: against the zero-width band [25, 25] a not-a-number impacted
\* value, which differs from 25, is given the deviation 0.
C6_Witness ==
    /\ op = "compute_deviations" /\ ret.ok
    /\ args.bands.q25[N_PARAMS] = Num(25) /\ args.bands.q75[N_PARAMS] = Num(25)
    /\ IsNaN(args.impacted_values[1][N_PARAMS])
    /\ ret.val[1][N_PARAMS] = Num(0)

\* C8 (as stated): every result of compute_iari has one row of deviations per
\* impacted year, 33 columns, every entry >= 0; years are the impacted years;
\* per_year[i] is the mean of row i; overall is the mean of per_year and >= 0.
C8_IariResult ==
    IariReturned =>
        LET r == ret.val
        IN  /\ Len(r.deviations) = Len(impacted.years)
            /\ \A i \in 1..Len(r.deviations) :
                  /\ Len(r.deviations[i]) = 33
                  /\ \A j \in 1..33 : RGe(r.deviations[i][j], Num(0))
                  /\ r.per_year[i] = RDiv(RSum(r.deviations[i]), Num(33))
            /\ r.years = impacted.years
            /\ Len(r.per_year) = Len(r.deviations)
            /\ r.overall = Mean(r.per_year)
            /\ RGe(r.overall, Num(0))

\* C8 failing state: an impacted year whose base flow index is not-a-number,
\* against a natural band of non-zero width, gives a deviation, a yearly score and
\* an overall score that are not-a-number, and the result is returned.
C8_Witness ==
    /\ IariReturned
    /\ Len(ret.val.deviations) >= 1
    /\ IsNaN(impacted.values[1][BASE_FLOW_INDEX + 1])
    /\ IsNaN(ret.val.deviations[1][BASE_FLOW_INDEX + 1])
    /\ IsNaN(ret.val.per_year[1])
    /\ IsNaN(ret.val.overall)
    /\ ret.val.classification = "Poor"


(***************************************************************************)
(* Properties of compute_iha and extract_year_slices                       *)
(***************************************************************************)
IhaCalled == op = "compute_iha"

LengthsDiffer == Len(args.q) # Len(args.dates)

SomeNegative == \E i \in 1..Len(args.q) : args.q[i] < 0

SomeGap == \E i \in 1..(Len(args.dates) - 1) : args.dates[i + 1] - args.dates[i] # 1

\* The calendar years all of whose days are among the dates (dates ascending): the
\* years that hold as many distinct dates as they have days.
CompleteYears(dates) ==
    IF Len(dates) = 0 THEN {}
    ELSE {y \in YearOf(dates[1])..YearOf(dates[Len(dates)]) :
             Cardinality({d \in {dates[i] : i \in 1..Len(dates)} :
                             YearStart(y) <= d /\ d < YearStart(y + 1)})
                 = YearStart(y + 1) - YearStart(y)}

TooFewYears == Cardinality(CompleteYears(args.dates)) < args.min_years

Raised(type) == ~ret.ok /\ ret.err.type = type

\* C9: compute_iha reports the first failing check in the order length equality,
\* negative flow, daily continuity, min_years complete years; it returns a result
\* only when all four checks pass, and the ValueError of the pulse-threshold
\* derivation is raised only when all four checks pass.
C9_ValidationOrder ==
    IhaCalled =>
        /\ LengthsDiffer => Raised("DateFlowLengthMismatchError")
        /\ ~LengthsDiffer /\ SomeNegative => Raised("NegativeFlowError")
        /\ ~LengthsDiffer /\ ~SomeNegative /\ SomeGap => Raised("NonDailyTimestepError")
        /\ ~LengthsDiffer /\ ~SomeNegative /\ ~SomeGap /\ TooFewYears
              => Raised("InsufficientDataError")
        /\ ret.ok \/ Raised("ValueError")
              => ~LengthsDiffer /\ ~SomeNegative /\ ~SomeGap /\ ~TooFewYears

\* A record of as many flows as dates that holds a negative flow and a date gap and
\* too few complete years: the negative flow is the error reported.
C9_Witness ==
    /\ IhaCalled
    /\ ~LengthsDiffer /\ SomeNegative /\ SomeGap /\ TooFewYears
    /\ Raised("NegativeFlowError")


Contiguous(dates) == \A i \in 1..(Len(dates) - 1) : dates[i + 1] - dates[i] = 1

\* The triples of the segmenter are those of the complete years, each with the length
\* of its year and starting on its 1 January, in strictly ascending order of the year.
SegmentsComplete(dates, slices) ==
    /\ {slices[i].year : i \in 1..Len(slices)} = CompleteYears(dates)
    /\ \A i \in 1..(Len(slices) - 1) : slices[i].year < slices[i + 1].year
    /\ \A i \in 1..Len(slices) :
          /\ slices[i].end - slices[i].start = (IF IsLeap(slices[i].year) THEN 366 ELSE 365)
          /\ dates[slices[i].start + 1] = YearStart(slices[i].year)

SegmenterExact ==
    op = "extract_year_slices" /\ Contiguous(args.dates) => SegmentsComplete(args.dates, ret)

\* compute_iha returns one row per triple of the segmenter, in the same order.
RowPerTriple ==
    IhaCalled /\ ret.ok =>
        With(extract_year_slices(args.dates), LAMBDA slices :
        /\ SegmentsComplete(args.dates, slices)
        /\ Len(ret.val.values) = Len(slices)
        /\ ret.val.years = [i \in 1..Len(slices) |-> slices[i].year])

\* compute_iha on the flows and dates of one triple alone, with the given pulse thresholds.
OnSliceAlone(slice, pulse_thresholds) ==
    compute_iha(SubSeq(args.q, slice.start + 1, slice.end),
                SubSeq(args.dates, slice.start + 1, slice.end),
                args.zero_flow_threshold, pulse_thresholds, 0)

\* Every row is what compute_iha returns for that year's slice alone with the given
\* pulse thresholds.
RowsFromSlices(pulse_thresholds) ==
    With(extract_year_slices(args.dates), LAMBDA slices :
    \A i \in 1..Len(slices) :
        With(OnSliceAlone(slices[i], pulse_thresholds), LAMBDA alone :
        alone.ok /\ alone.val.values = << ret.val.values[i] >>))

\* C10 as claimed: the segmenter returns exactly the complete years, ascending, and
\* compute_iha returns one row per triple, in the same order, each row computed only
\* from that year's slice: calling compute_iha with the same options on the slice
\* alone gives the row.
C10_RowsFromSliceOnly ==
    /\ SegmenterExact
    /\ RowPerTriple
    /\ IhaCalled /\ ret.ok => RowsFromSlices(args.pulse_thresholds)

\* C10, amended: the segmenter returns exactly the complete years, ascending, and
\* compute_iha returns one row per triple, in the same order, each row computed from
\* that year's slice and the pulse thresholds of the result, which are derived from
\* the full record when the caller supplies none.
C10_RowsFromSliceAndThresholds ==
    /\ SegmenterExact
    /\ RowPerTriple
    /\ IhaCalled /\ ret.ok => RowsFromSlices(ret.val.pulse_thresholds)

\* Two complete years after a partial first year, with derived pulse thresholds.
C10_Witness ==
    /\ IhaCalled /\ ret.ok
    /\ args.pulse_thresholds = None
    /\ Len(ret.val.values) = 2
    /\ args.dates[1] < YearStart(ret.val.years[1])
    /\ RowsFromSlices(ret.val.pulse_thresholds)
    /\ ~RowsFromSlices(None)


ChecksPass == ~LengthsDiffer /\ ~SomeNegative /\ ~SomeGap

\* C11: compute_iha raises InsufficientDataError exactly when the three earlier checks
\* pass and fewer than min_years calendar years are complete, and the error carries the
\* number of years found and the number required; otherwise partial years are dropped
\* without an error: with supplied pulse thresholds the call returns, and every result
\* has one row of 33 columns per complete year (no row when no year is complete).
C11_InsufficientData ==
    IhaCalled =>
        /\ Raised("InsufficientDataError") <=> (ChecksPass /\ TooFewYears)
        /\ Raised("InsufficientDataError") =>
              /\ ret.err.n_years = Cardinality(CompleteYears(args.dates))
              /\ ret.err.min_years = args.min_years
              /\ ret.err.n_days = Len(args.q)
        /\ ChecksPass /\ ~TooFewYears /\ args.pulse_thresholds # None => ret.ok
        /\ ret.ok =>
              /\ Len(ret.val.values) = Cardinality(CompleteYears(args.dates))
              /\ ret.val.n_cols = N_PARAMS
              /\ \A i \in 1..Len(ret.val.values) : Len(ret.val.values[i]) = N_PARAMS

\* A record of 365 days of a leap year, so without a complete year, with min_years = 0:
\* the result has no row and 33 columns.
C11_Witness ==
    /\ IhaCalled /\ ret.ok
    /\ args.min_years = 0
    /\ Len(args.dates) = 365 /\ CompleteYears(args.dates) = {}
    /\ Len(ret.val.values) = 0 /\ ret.val.n_cols = N_PARAMS


\* The flows of a record as numbers.
AsNumbers(q) == [i \in 1..Len(q) |-> Num(q[i])]

\* The PulseThresholds values a state holds: one constructed or derived, or the one
\* stored in a result of compute_iha.
ThresholdsHeld ==
    IF op \in {"PulseThresholds", "pulse_thresholds_from_record"} /\ ret.ok THEN {ret.val}
    ELSE IF IhaCalled /\ ret.ok THEN {ret.val.pulse_thresholds}
    ELSE {}

\* C12: pulse_thresholds_from_record returns the 25th and 75th percentile of the full
\* record and raises when the derived low >= high; every PulseThresholds that exists,
\* derived or supplied, satisfies 0 <= low < high.
C12_PulseThresholds ==
    /\ op = "pulse_thresholds_from_record" =>
          /\ ret.ok => /\ ret.val.low = Percentile(AsNumbers(args.q), 25)
                       /\ ret.val.high = Percentile(AsNumbers(args.q), 75)
          /\ RGe(Percentile(AsNumbers(args.q), 25), Percentile(AsNumbers(args.q), 75))
                => Raised("ValueError")
    /\ \A pt \in ThresholdsHeld : RLe(Num(0), pt.low) /\ RLt(pt.low, pt.high)

\* PulseThresholds(low = not-a-number, high = 6) is constructed without an error.
C12_Witness ==
    /\ op = "PulseThresholds" /\ ret.ok
    /\ IsNaN(args.low) /\ args.high = Num(6)
    /\ IsNaN(ret.val.low)
    /\ ~RLe(Num(0), ret.val.low)


\* The rows of the result of compute_iha.
IhaRows == IF IhaCalled /\ ret.ok THEN {ret.val.values[i] : i \in 1..Len(ret.val.values)} ELSE {}

\* C14: in every row of a result of compute_iha, for each of the five windows the
\* minimum of the rolling mean is at most its maximum, or both are not-a-number.
C14_MinAtMostMax ==
    \A row \in IhaRows : \A k \in 1..Len(windows) :
        \/ RLe(row[MIN_1DAY + k], row[MAX_1DAY + k])
        \/ IsNaN(row[MIN_1DAY + k]) /\ IsNaN(row[MAX_1DAY + k])

\* A row whose 90-day minimum is below its 90-day maximum and whose 1-day minimum is 1.
C14_Witness ==
    \E row \in IhaRows :
        /\ RLt(row[MIN_1DAY + 5], row[MAX_1DAY + 5])
        /\ row[MIN_1DAY + 1] = Num(1) /\ row[MAX_1DAY + 1] = Num(7)

C15_BfiRange ==
    \A row \in IhaRows :
        \/ IsNaN(row[BASE_FLOW_INDEX + 1])
        \/ RLe(Num(0), row[BASE_FLOW_INDEX + 1]) /\ RLe(row[BASE_FLOW_INDEX + 1], Num(1))

\* The leap year 2000 with flow on one day of every week, 52 days in all: every 7-day
\* mean is 7/7 and the annual mean is 364/366, so the base-flow index is 366/364.
C15_Witness ==
    /\ IhaCalled /\ ret.ok
    /\ Len(ret.val.values) = 1 /\ ret.val.years = << 2000 >>
    /\ \A i \in 1..Len(args.q) : args.q[i] \in {0, 7}
    /\ ret.val.values[1][MIN_1DAY + 3] = Num(1)
    /\ ret.val.values[1][BASE_FLOW_INDEX + 1] = Rat(366, 364)


ComputeCalled == op \in {"compute_dhram", "compute_iari"}

ShapesBad(nat_cols, imp_cols) ==
    /\ Raised("IncompatibleIHAResultsError")
    /\ ret.err.natural_n_params = nat_cols
    /\ ret.err.impacted_n_params = imp_cols

YearsShort(label, n_years) ==
    /\ Raised("InsufficientYearsError")
    /\ ret.err.series_label = label
    /\ ret.err.n_years = n_years
    /\ ret.err.min_years = args.min_years

\* C16: compute_dhram and compute_iari check that natural has 33 columns, that impacted
\* has 33 columns, that natural has min_years rows and that impacted has min_years
\* rows, in this order; the first failing check raises IncompatibleIHAResultsError with
\* both column counts or InsufficientYearsError with the label, the row count and
\* min_years of the failing series, and a result is returned only when all four pass.
C16_ComputeValidation ==
    ComputeCalled =>
        /\ natural.n_cols # 33 => ShapesBad(natural.n_cols, impacted.n_cols)
        /\ natural.n_cols = 33 /\ impacted.n_cols # 33
              => ShapesBad(natural.n_cols, impacted.n_cols)
        /\ natural.n_cols = 33 /\ impacted.n_cols = 33 /\ Len(natural.values) < args.min_years
              => YearsShort("natural", Len(natural.values))
        /\ (/\ natural.n_cols = 33 /\ impacted.n_cols = 33
            /\ Len(natural.values) >= args.min_years
            /\ Len(impacted.values) < args.min_years)
              => YearsShort("impacted", Len(impacted.values))
        /\ ret.ok => /\ natural.n_cols = 33 /\ impacted.n_cols = 33
                     /\ Len(natural.values) >= args.min_years
                     /\ Len(impacted.values) >= args.min_years

\* compute_dhram on a natural result of too few rows and an impacted result of 10
\* columns and too few rows: the column counts are the error reported.
C16_Witness ==
    /\ op = "compute_dhram"
    /\ natural.n_cols = 33 /\ impacted.n_cols = 10
    /\ Len(natural.values) < args.min_years /\ Len(impacted.values) < args.min_years
    /\ ShapesBad(33, 10)


(***************************************************************************)
(* Properties of evaluate_dhram                                            *)
(***************************************************************************)
LoopRan == op = "evaluate_dhram" /\ (ret.ok \/ ret.err.type = "ReachEvaluationError")

Selected ==
    IF args.reach_ids = None THEN natural_reach_ids(natural) \cap natural_reach_ids(impacted)
    ELSE {args.reach_ids.items[i] : i \in 1..Len(args.reach_ids.items)}

\* The flows of each complete year of the trace of a reach, in order.
YearFlows(system, rid) ==
    With(extract_reach_flow(system, rid).val, LAMBDA flow :
    With(extract_year_slices(flow.dates), LAMBDA slices :
    [i \in 1..Len(slices) |-> SubSeq(flow.q, slices[i].start + 1, slices[i].end)]))

\* The pulse columns of every row of an IHA result are those of the year's flows
\* under the thresholds t, and t is what the result stores.
UsesThresholds(iha, year_flows, t) ==
    /\ iha.pulse_thresholds = t
    /\ Len(iha.values) = Len(year_flows)
    /\ \A i \in 1..Len(iha.values) :
          SubSeq(iha.values[i], 27, 30) = compute_group4(year_flows[i], t.low, t.high)

\* C13: for every reach of a batch the pulse thresholds are the 25th/75th percentiles
\* of the natural record of that reach, and the natural and the impacted IHA results
\* both store exactly these thresholds and have the pulse columns of every year
\* computed from them; the impacted record's own percentiles are never used.
C13_SharedThresholds ==
    LoopRan =>
        \A rid \in Selected :
            With(reach_iha(natural, impacted, rid, args.zero_flow_threshold, args.min_years),
                 LAMBDA iha :
            iha.ok =>
                With(AsNumbers(natural.traces[rid].values), LAMBDA record :
                With(PulseThresholds(Percentile(record, 25), Percentile(record, 75)), LAMBDA t :
                /\ UsesThresholds(iha.val.natural, YearFlows(natural, rid), t)
                /\ UsesThresholds(iha.val.impacted, YearFlows(impacted, rid), t))))

\* A reach whose impacted record has other percentiles than its natural record, in a
\* batch that evaluated it.
C13_Witness ==
    /\ LoopRan /\ ret.ok
    /\ \E rid \in DOMAIN ret.val :
          /\ rid \in Selected
          /\ pulse_thresholds_from_record(impacted.traces[rid].values)
                # pulse_thresholds_from_record(natural.traces[rid].values)
          /\ pulse_thresholds_from_record(impacted.traces[rid].values).ok


PrerequisitesMet ==
    /\ natural.frequency = DAILY /\ impacted.frequency = DAILY
    /\ natural.start_date # None /\ impacted.start_date # None

BatchRun == op = "evaluate_dhram" /\ PrerequisitesMet /\ Selected # {}

\* What the pipeline of each selected reach comes to.
Outcomes == [rid \in Selected |-> reach_pipeline(natural, impacted, rid, args)]

\* The selected reaches whose pipeline completes, and those whose pipeline raises,
\* with their exceptions.
Completed(outcomes) == {rid \in DOMAIN outcomes : outcomes[rid].ok}

Failed(outcomes) == {rid \in DOMAIN outcomes : ~outcomes[rid].ok}

Failures(outcomes) == [rid \in Failed(outcomes) |-> outcomes[rid].err]

\* C17: over a non-empty selection evaluate_dhram returns a mapping whose keys are
\* exactly the reaches whose pipeline completed without error, whenever there is one;
\* it raises ReachEvaluationError exactly when every selected reach failed, and then
\* reach_errors holds the exception of every selected reach.
C17_BatchOutcome ==
    BatchRun =>
        With(Outcomes, LAMBDA outcomes :
        /\ Completed(outcomes) # {} => ret.ok /\ DOMAIN ret.val = Completed(outcomes)
        /\ Raised("ReachEvaluationError") <=> Completed(outcomes) = {}
        /\ Completed(outcomes) = {}
              => /\ ret.err.reach_errors = Failures(outcomes)
                 /\ DOMAIN ret.err.reach_errors = Selected)

\* Three reaches selected, of which some but not all fail.
C17_Witness ==
    /\ BatchRun /\ ret.ok
    /\ Cardinality(Selected) = 3
    /\ With(Outcomes, LAMBDA outcomes :
            Failed(outcomes) # {} /\ DOMAIN ret.val = Completed(outcomes))

\* What the caller receives: the mapping returned, or the exception raised.
Received == IF ret.ok THEN [results |-> ret.val] ELSE [raised |-> ret.err]

PartialFailure(outcomes) == BatchRun /\ Completed(outcomes) # {} /\ Failed(outcomes) # {}

\* C18: when some but not all selected reaches fail, evaluate_dhram succeeds and the
\* caller receives the partial mapping together with a map of the failures.
C18_FailuresReported ==
    BatchRun =>
        With(Outcomes, LAMBDA outcomes :
        PartialFailure(outcomes) =>
            Received = [results |-> [rid \in Completed(outcomes) |-> outcomes[rid].val],
                        errors |-> Failures(outcomes)])

\* Some but not all reaches fail, and the caller receives the partial mapping and
\* nothing else.
C18_Witness ==
    /\ BatchRun
    /\ With(Outcomes, LAMBDA outcomes :
            /\ PartialFailure(outcomes)
            /\ Received = [results |-> [rid \in Completed(outcomes) |-> outcomes[rid].val]])

\* The evaluation of one reach on its own.
Alone(rid) == evaluate_dhram(natural, impacted, list(<< rid >>), args)

\* C19: a reach has in a batch the outcome it has when evaluated alone, whatever the
\* other reaches, their order and their failures: its result is in the mapping exactly
\* when the evaluation alone returns it, and is the same; its exception, where the
\* batch raises, is the one the evaluation alone carries.
C19_Independent ==
    BatchRun =>
        \A rid \in Selected :
            With(Alone(rid), LAMBDA alone :
            IF alone.ok
            THEN ret.ok /\ rid \in DOMAIN ret.val /\ ret.val[rid] = alone.val[rid]
            ELSE /\ alone.err.type = "ReachEvaluationError"
                 /\ ret.ok => rid \notin DOMAIN ret.val
                 /\ ~ret.ok => /\ rid \in DOMAIN ret.err.reach_errors
                                /\ ret.err.reach_errors[rid] = alone.err.reach_errors[rid])

\* Reaches 3 and 1 asked for in this order: reach 1 fails, and reach 3 has the
\* result, of an altered regime, that it has alone.
C19_Witness ==
    /\ BatchRun /\ ret.ok
    /\ args.reach_ids = list(<< 3, 1 >>)
    /\ DOMAIN ret.val = {3}
    /\ ret.val[3].total_points > 0
    /\ ~Alone(1).ok /\ Alone(3).ok

\* C20: before any reach is evaluated, evaluate_dhram checks that the natural system
\* is daily, that the impacted system is daily, that the natural system has a start
\* date and that the impacted system has one, in this order, and raises the first
\* violation itself as NonDailyFrequencyError or MissingStartDateError; with the
\* prerequisites met, an empty selection raises NoCommonReachesError.
C20_Prerequisites ==
    op = "evaluate_dhram" =>
        /\ natural.frequency # DAILY
              => Raised("NonDailyFrequencyError") /\ ret.err.frequency = natural.frequency
        /\ natural.frequency = DAILY /\ impacted.frequency # DAILY
              => Raised("NonDailyFrequencyError") /\ ret.err.frequency = impacted.frequency
        /\ natural.frequency = DAILY /\ impacted.frequency = DAILY /\ natural.start_date = None
              => Raised("MissingStartDateError")
        /\ (/\ natural.frequency = DAILY /\ impacted.frequency = DAILY
            /\ natural.start_date # None /\ impacted.start_date = None)
              => Raised("MissingStartDateError")
        /\ PrerequisitesMet /\ Selected = {} => Raised("NoCommonReachesError")
        /\ PrerequisitesMet /\ Selected # {}
              => ret.ok \/ Raised("ReachEvaluationError")

\* A natural system without start date and a monthly impacted system: the frequency
\* is the violation raised.
C20_Witness ==
    /\ op = "evaluate_dhram"
    /\ natural.frequency = DAILY /\ natural.start_date = None
    /\ impacted.frequency = MONTHLY
    /\ Raised("NonDailyFrequencyError") /\ ret.err.frequency = MONTHLY

(***************************************************************************)
(* Properties of compute_dhram and compute_iari on columns 22 and 23       *)
(***************************************************************************)
\* The pair in hand with 0 in the zero-flow-day-count and base-flow-index columns.
Blanked(result) == with_columns(result, Num(0), Num(0))

\* C26: the outcome of compute_dhram does not depend on columns 22 and 23: it is
\* the outcome for the pair with 0 in both columns of every row, so two pairs that
\* differ in those columns alone, not-a-number included, have the same
\* indicators, total_points and classes.
C26_ColumnsIgnored ==
    op = "compute_dhram" =>
        ret = compute_dhram(Blanked(natural), Blanked(impacted), args.threshold_variant,
                            args.flow_cessation, args.subdaily_oscillation, args.min_years)

\* compute_dhram returned a result for a pair with not-a-number in the natural
\* base-flow index, and compute_iari tells that pair from the one with 0 in the
\* two columns.
C26_Witness ==
    /\ op = "compute_dhram" /\ ret.ok
    /\ \E i \in 1..Len(natural.values) : IsNaN(natural.values[i][BASE_FLOW_INDEX + 1])
    /\ \E i \in 1..Len(impacted.values) : impacted.values[i][ZERO_FLOW_DAYS + 1] = Num(3)
    /\ compute_iari(natural, impacted, args.min_years)
          # compute_iari(Blanked(natural), Blanked(impacted), args.min_years)

\* A call of compute_iari whose arguments pass the checks of shape and of years.
IariValidated ==
    /\ op = "compute_iari"
    /\ natural.n_cols = N_PARAMS /\ impacted.n_cols = N_PARAMS
    /\ Len(natural.years) >= args.min_years /\ Len(impacted.years) >= args.min_years

\* The 25th and 75th percentile of every column of the natural record.
NaturalEdges ==
    [j \in 1..N_PARAMS |-> << Percentile(Column(natural.values, j - 1), 25),
                              Percentile(Column(natural.values, j - 1), 75) >>]

\* The column indices (from 0) whose band has zero width.
ZeroWidth(edges) == {j \in 0..(N_PARAMS - 1) : RSub(edges[j + 1][2], edges[j + 1][1]) = Num(0)}

\* C21: a band of zero width never makes compute_iari fail: whenever the checks of
\* shape and years pass and every band edge is a number, compute_iari returns a
\* result whose degenerate_params is exactly the set of column indices j with
\* q75_j - q25_j = 0, and every deviation in such a column is 0 or 1: 0 for a value
\* equal to the natural value, 1 for a number that differs from it.
C21_DegenerateBands ==
    IariValidated =>
        With(NaturalEdges, LAMBDA edges :
        (\A j \in 1..N_PARAMS : ~IsNaN(edges[j][1]) /\ ~IsNaN(edges[j][2])) =>
            /\ ret.ok
            /\ ret.val.degenerate_params = ZeroWidth(edges)
            /\ \A j \in ZeroWidth(edges) : \A i \in 1..Len(impacted.values) :
                  /\ ret.val.deviations[i][j + 1] \in {Num(0), Num(1)}
                  /\ ~IsNaN(impacted.values[i][j + 1]) =>
                        ret.val.deviations[i][j + 1] =
                            IF impacted.values[i][j + 1] = edges[j + 1][1] THEN Num(0) ELSE Num(1))

\* compute_iari returned a result for two natural years: the two columns that hold
\* 3 in both years have bands of zero width and the others do not; the impacted
\* values of those two columns equal the natural ones and score 0, while the first
\* column scores 3/2 against its band of non-zero width.
C21_Witness ==
    /\ IariValidated /\ ret.ok
    /\ Len(natural.years) = 2
    /\ ret.val.degenerate_params = {ZERO_FLOW_DAYS, BASE_FLOW_INDEX}
    /\ ret.val.deviations[1][ZERO_FLOW_DAYS + 1] = Num(0)
    /\ ret.val.deviations[1][BASE_FLOW_INDEX + 1] = Num(0)
    /\ impacted.values[1][BASE_FLOW_INDEX + 1] = Num(3)
    /\ ret.val.deviations[1][1] = Rat(3, 2)

(***************************************************************************)
(* Properties of the group computations and run_lengths                    *)
(***************************************************************************)
\* The first differences of an array of flows.
Diff(q) == Array([i \in 1..(Len(q) - 1) |-> q[i + 1] - q[i]])

\* The number of changes of sign along the differences that are not zero.
SignChanges(q) ==
    With(SelectSeq(Diff(q), LAMBDA x : x # 0), LAMBDA signed :
    Cardinality({i \in 1..(Len(signed) - 1) : (signed[i] > 0) # (signed[i + 1] > 0)}))

\* C24: the reversal count that compute_group5 returns is the number of changes
\* between a strictly positive and a strictly negative first difference, zero
\* differences counting as no sign; so it is 0 for a series whose non-zero
\* differences all have one sign.
C24_Reversals ==
    op = "compute_group5" => ret.val[3] = Num(SignChanges(args.q))

\* Falls separated by a day of unchanged flow, for which compute_group5 counts
\* reversals.
C24_Witness ==
    /\ op = "compute_group5"
    /\ \A i \in 1..Len(Diff(args.q)) : Diff(args.q)[i] <= 0
    /\ \E i \in 2..(Len(Diff(args.q)) - 1) :
          Diff(args.q)[i - 1] < 0 /\ Diff(args.q)[i] = 0 /\ Diff(args.q)[i + 1] < 0
    /\ SignChanges(args.q) = 0
    /\ ret.val[3] = Num(2)

\* The maximal runs of TRUE in a mask, each as << first, last >>.
MaximalRuns(mask) ==
    {r \in (1..Len(mask)) \X (1..Len(mask)) :
        /\ r[1] <= r[2]
        /\ \A i \in r[1]..r[2] : mask[i]
        /\ (r[1] = 1 \/ ~mask[r[1] - 1])
        /\ (r[2] = Len(mask) \/ ~mask[r[2] + 1])}

\* The number of the maximal runs of a mask and the mean of their lengths, 0 without a run.
PulsesOf(mask) ==
    With(MaximalRuns(mask), LAMBDA runs :
    << Num(Cardinality(runs)),
       IF runs = {} THEN Num(0)
       ELSE Rat(Cardinality({p \in runs \X (1..Len(mask)) : p[2] \in p[1][1]..p[1][2]}),
                Cardinality(runs)) >>)

\* The days of q strictly below a threshold, and strictly above one.
Below(q, threshold) == [i \in 1..Len(q) |-> RLt(Num(q[i]), threshold)]

Above(q, threshold) == [i \in 1..Len(q) |-> RGt(Num(q[i]), threshold)]

\* C25: compute_group4 returns the number and the mean length of the maximal runs
\* of days strictly below low, then of days strictly above high; a day equal to a
\* threshold is in no run; without a run the count and the mean are 0, never
\* not-a-number.
C25_Pulses ==
    op = "compute_group4" =>
        /\ ret.val = PulsesOf(Below(args.q, args.low_thresh))
                     \o PulsesOf(Above(args.q, args.high_thresh))
        /\ \A k \in 1..4 : ~IsNaN(ret.val[k])

\* A day equal to the low threshold between two days below it splits two low
\* pulses of one day each, and no day is above the high threshold.
C25_Witness ==
    /\ op = "compute_group4"
    /\ \E i \in 2..(Len(args.q) - 1) :
          /\ Num(args.q[i]) = args.low_thresh
          /\ args.q[i - 1] < args.q[i] /\ args.q[i + 1] < args.q[i]
    /\ ret.val[1] = Num(2) /\ ret.val[2] = Num(1)
    /\ ret.val[3] = Num(0) /\ ret.val[4] = Num(0)

\* The lengths of the maximal runs of a mask in the order in which they occur.
RunsInOrder(mask) ==
    With(MaximalRuns(mask), LAMBDA runs :
    [k \in 1..Cardinality(runs) |->
        With(CHOOSE r \in runs : Cardinality({s \in runs : s[1] < r[1]}) = k - 1,
             LAMBDA r : r[2] - r[1] + 1)])

\* The number of TRUE entries of a mask.
CountTrue(mask) == Cardinality({i \in 1..Len(mask) : mask[i]})

\* C30: run_lengths returns one entry per maximal run of TRUE, in order of
\* occurrence, each at least 1, and the entries sum to the number of TRUE
\* entries; so in compute_group4 the low-pulse count times the mean low-pulse
\* duration is the number of days below low, likewise for high, and the two
\* numbers of days together do not exceed the number of days.
C30_RunLengths ==
    /\ op = "run_lengths" =>
          /\ ret.val = RunsInOrder(args.mask)
          /\ \A k \in 1..Len(ret.val) : ret.val[k] >= 1
          /\ SumRange(ret.val, 1, Len(ret.val)) = CountTrue(args.mask)
    /\ op = "compute_group4" =>
          /\ RMul(ret.val[1], ret.val[2]) = Num(CountTrue(Below(args.q, args.low_thresh)))
          /\ RMul(ret.val[3], ret.val[4]) = Num(CountTrue(Above(args.q, args.high_thresh)))
          /\ RLe(RAdd(RMul(ret.val[1], ret.val[2]), RMul(ret.val[3], ret.val[4])),
                 Num(Len(args.q)))

\* A mask with two runs of different lengths, the first at the start of the mask.
C30_Witness ==
    /\ op = "run_lengths"
    /\ args.mask = << TRUE, TRUE, FALSE, TRUE >>
    /\ ret.val = << 2, 1 >>


(***************************************************************************)
(* Properties of scoring a regime against its own bands                    *)
(***************************************************************************)
\* The complete calendar years of the record of the Reach of a system.
RecordYears(system) ==
    CompleteYears([i \in 1..Len(system.traces[1].timesteps) |->
                      system.start_date.day + system.traces[1].timesteps[i]])

\* evaluate_iari or the objective has scored a system against itself.
SelfEvaluated == op = "evaluate_iari" /\ natural = impacted /\ ret.ok

SelfObjective == op = "iari_objective" /\ natural = impacted /\ ret.ok

ScoresZero ==
    /\ SelfEvaluated => \A rid \in DOMAIN ret.val :
                            /\ ret.val[rid].overall = Num(0)
                            /\ ret.val[rid].classification = "Excellent"
    /\ SelfObjective => ret.val = Num(0)

\* C22: scoring a flow regime against bands derived from itself (evaluate_iari(S, S),
\* or the objective built from the bands of S and evaluated on S) yields an overall
\* score of 0 and the classification "Excellent", for a record with any number of
\* complete years.
C22_SelfScoreZero == ScoresZero

\* C22, amended: scoring a flow regime against bands derived from itself yields an
\* overall score of 0 and the classification "Excellent" for a record with one
\* complete year, where every band has zero width at the year's own value.
C22_SelfScoreZeroOneYear ==
    SelfEvaluated \/ SelfObjective =>
        (Cardinality(RecordYears(natural)) = 1 => ScoresZero)

\* One complete year of the saw scored against itself, by both entry points' rule.
C22_Witness ==
    /\ SelfEvaluated
    /\ RecordYears(natural) = {FirstYear}
    /\ natural.traces[1].values[1] # 0
    /\ DOMAIN ret.val = {1}
    /\ ret.val[1].overall = Num(0)
    /\ ret.val[1].classification = "Excellent"
    /\ Len(ret.val[1].deviations) = 1

\* Two complete years of the saw scored against themselves: every indicator that
\* differs between the years lies outside the band between its quartiles.
C22_TwoYears ==
    /\ SelfObjective
    /\ Cardinality(RecordYears(natural)) = 2
    /\ RGt(ret.val, Num(0))


(***************************************************************************)
(* Properties of compute_iari on results of compute_iha                    *)
(***************************************************************************)
\* The result of compute_iha on a whole-year record of a pattern.
FromComputeIha(result) ==
    \E n \in RecordSpans, pattern \in RecordPatterns : result = iha_of_record(n, pattern)

IariOnRecords ==
    /\ op = "compute_iari"
    /\ FromComputeIha(natural) /\ FromComputeIha(impacted)
    /\ Len(natural.values) >= args.min_years
    /\ Len(impacted.values) >= args.min_years

\* C27: for a natural and an impacted IHAResult that compute_iha produced from valid
\* non-negative daily records (a year of no flow at all, whose base-flow index is
\* not-a-number, included), each with at least min_years rows, compute_iari returns
\* an IARIResult: it raises nothing but IncompatibleIHAResultsError and
\* InsufficientYearsError.
C27_OnlyValidationErrors ==
    /\ IariOnRecords => ret.ok /\ IARIResult_post_init(ret.val)
    /\ op = "compute_iari" /\ ~ret.ok
          => ret.err.type \in {"IncompatibleIHAResultsError", "InsufficientYearsError"}

\* A natural record of two years without flow: the base-flow index of both rows is
\* not-a-number, so are the band edges of that column, and NaturalBands refuses them.
C27_Witness ==
    /\ IariOnRecords
    /\ Len(natural.values) = 2
    /\ \A i \in 1..2 : IsNaN(natural.values[i][BASE_FLOW_INDEX + 1])
    /\ Len(impacted.values) = 1 /\ ~IsNaN(impacted.values[1][BASE_FLOW_INDEX + 1])
    /\ Raised("ValueError")


(***************************************************************************)
(* Properties of naturalize                                                *)
(***************************************************************************)
Naturalized == op = "naturalize"

\* The sequences of two to four nodes of a system.
NodeSequences(system) == UNION {[1..k -> DOMAIN system.nodes] : k \in 2..4}

NaturalEdgeIds(system) == {eid \in DOMAIN system.edges : NATURAL_TAG \in system.edges[eid].tags}

\* p leads from a Source to a Sink along natural-tagged edges.
IsNaturalPath(system, p) ==
    /\ system.nodes[p[1]].type = "Source"
    /\ system.nodes[p[Len(p)]].type = "Sink"
    /\ \A i \in 1..(Len(p) - 1) :
          \E eid \in NaturalEdgeIds(system) :
              system.edges[eid].source = p[i] /\ system.edges[eid].target = p[i + 1]

\* The nodes that lie on some natural path from a Source to a Sink.
OnNaturalPath(system) ==
    {nid \in DOMAIN system.nodes :
        \E p \in NodeSequences(system) :
            IsNaturalPath(system, p) /\ \E i \in 1..Len(p) : p[i] = nid}

NaturalBetween(system, retained) ==
    {eid \in NaturalEdgeIds(system) :
        system.edges[eid].source \in retained /\ system.edges[eid].target \in retained}

\* C23: when naturalize succeeds, the naturalized system holds exactly the nodes that
\* lie on some path of natural-tagged edges from a Source to a Sink and exactly the
\* natural-tagged edges whose two endpoints are both retained; every other node and
\* edge of the original is listed in removed_nodes / removed_edges, so that retained
\* and removed ids partition the original ids, and every edge of the result carries
\* the natural tag.
C23_NaturalPartition ==
    Naturalized /\ ret.ok =>
        LET retained_nodes == DOMAIN ret.val.system.nodes
            retained_edges == DOMAIN ret.val.system.edges
        IN  /\ retained_nodes = OnNaturalPath(natural)
            /\ retained_edges = NaturalBetween(natural, retained_nodes)
            /\ ret.val.removed_nodes = DOMAIN natural.nodes \ retained_nodes
            /\ ret.val.removed_edges = DOMAIN natural.edges \ retained_edges
            /\ retained_nodes \cap ret.val.removed_nodes = {}
            /\ retained_nodes \cup ret.val.removed_nodes = DOMAIN natural.nodes
            /\ retained_edges \cap ret.val.removed_edges = {}
            /\ retained_edges \cup ret.val.removed_edges = DOMAIN natural.edges
            /\ \A eid \in retained_edges :
                  /\ NATURAL_TAG \in ret.val.system.edges[eid].tags
                  /\ ret.val.system.edges[eid] = natural.edges[eid]

\* source -> reach -> sink is natural; the side node 3 has a natural edge from the
\* source and a canal to the sink: the node, its natural edge and the canal go.
C23_Witness ==
    /\ Naturalized /\ ret.ok
    /\ natural.nodes[2].type = "Reach"
    /\ DOMAIN ret.val.system.nodes = {1, 2, 4}
    /\ DOMAIN ret.val.system.edges = {1, 4}
    /\ ret.val.removed_nodes = {3}
    /\ ret.val.removed_edges = {3, 5}
    /\ NATURAL_TAG \in natural.edges[5].tags
    /\ NATURAL_TAG \notin natural.edges[3].tags

\* A Demand with downstream edges none of which is natural.
CanalOnlyDemands(system) ==
    {nid \in DOMAIN system.nodes :
        /\ system.nodes[nid].type = "Demand"
        /\ \E eid \in DOMAIN system.edges : system.edges[eid].source = nid
        /\ \A eid \in NaturalEdgeIds(system) : system.edges[eid].source # nid}

=============================================================================
